---------------------------- MODULE Spec2Model ----------------------------
(***************************************************************************)
(* Model of the fantasy-football ingestion pipeline:                       *)
(*   - the batched upsert loops (scripts/load_fixtures.py,                 *)
(*     scripts/update_formations.py and fpl_full_update/handler.py),       *)
(*   - the formation calculation of the script and of the handler,         *)
(*   - the consistency score of the manager stage,                         *)
(*   - a run of handle() from bootstrap to the returned summary.           *)
(* Each part has its own specification over its own group of variables;    *)
(* the other groups are held at their idle values.                         *)
(***************************************************************************)
EXTENDS Integers, Sequences, FiniteSets, TLC

VARIABLES
    \* ---- batched upsert loop
    b_mode,        \* which loop: "create_fixture_nodes", "update_formations", "handle"
    b_nodes,       \* the node list handed to the loop
    b_i,           \* loop variable i of range(0, len(nodes), batch_size)
    b_submitted,   \* the batches handed to instances.apply, in order
    b_store,       \* the nodes the store has committed, in commit order
    b_count,       \* total_created / total_updated / stats[...]
    b_failed,      \* some apply call has thrown
    b_pc,          \* "loop", "done" (loop left normally), "raised" (exception left the loop)
    \* ---- formation of one ManagerTeam
    f_picks,       \* the squad's picks: [element, position, multiplier], in slot order
    f_chip,        \* active_chip of the squad ("none" stands for None)
    f_stored,      \* the formation property the store holds for the ManagerTeam
    f_op,          \* the operation that acted last
    f_last,        \* what that operation returned or wrote
    \* ---- consistency score of one manager
    c_points,      \* weekly_points: the 'points' of each week of the history
    c_score,       \* consistency_score, in whole points
    c_pc,          \* "input", "scored"
    \* ---- one run of handle()
    pc,                      \* the step of handle() that runs next
    idx,                     \* position in standings of the manager a loop is at
    gwi,                     \* position in that manager's gameweeks
    scenario,                \* which payloads the remote API serves in this run
    faults,                  \* recoverable failures that have happened so far
    calls,                   \* the external calls made so far, in order
    store,                   \* the instance store: external id -> properties
    stats,                   \* the stats dictionary (counts and errors)
    manager_histories,       \* entry id -> fetched history
    manager_nodes,
    performance_nodes,
    manager_team_nodes,
    player_selection_nodes,
    formations_data,         \* the formation updates, in insertion order
    picks_by_gw,             \* transfer stage: gameweek -> fetched picks of the manager at idx
    all_transfers,
    result                   \* what handle() has returned or raised ("running" before)

bvars == <<b_mode, b_nodes, b_i, b_submitted, b_store, b_count, b_failed, b_pc>>
fvars == <<f_picks, f_chip, f_stored, f_op, f_last>>

cvars == <<c_points, c_score, c_pc>>

hvars == <<pc, idx, gwi, scenario, faults, calls, store, stats, manager_histories,
           manager_nodes, performance_nodes, manager_team_nodes, player_selection_nodes,
           formations_data, picks_by_gw, all_transfers, result>>

VARIABLES
    \* ---- derivation of the transfers of one compared pair of squads
    t_prev,         \* picks of the earlier gameweek
    t_curr,         \* picks of the later gameweek
    t_history,      \* entry_history of the later gameweek
    t_derived,      \* the records the comparison appended to all_transfers
    t_store,        \* the Transfer nodes upserted for the records
    t_pc            \* "input", "derived", "stored"

tvars == <<t_prev, t_curr, t_history, t_derived, t_store, t_pc>>

VARIABLES
    \* ---- the reference-data load (teams, gameweeks, players), run repeatedly
    r_input,        \* how many teams, events and players the bootstrap holds
    r_store,        \* the instance store: external id -> properties
    r_once,         \* the store as the first load left it
    r_ids,          \* per load, the external ids it handed to the store, in order
    r_run,          \* number of the load that is running or has run last
    r_pc            \* the step of the load that runs next, "done" after the last

rvars == <<r_input, r_store, r_once, r_ids, r_run, r_pc>>

VARIABLES
    \* ---- match_with_fpl_fixtures on its own
    o_odds,         \* odds_data as passed
    o_given,        \* fpl_fixtures as passed
    o_fixtures,     \* the caller's fixture list
    o_out,          \* the list returned
    o_pc            \* "given", "matched" or "idle"

ovars == <<o_odds, o_given, o_fixtures, o_out, o_pc>>

VARIABLES
    \* ---- the team update of step 2.5 on its own
    s_fixtures,     \* fixtures_raw
    s_node,         \* the update node built for team 1
    s_pc            \* "input", "updated" or "idle"

svars == <<s_fixtures, s_node, s_pc>>

VARIABLES
    \* ---- the gameweek window of the transfer stage on its own
    w_current,      \* current_gw
    w_gameweeks,    \* the gameweeks of the manager's history
    w_requested,    \* the gameweeks whose picks were requested, in order
    w_picks,        \* the gameweeks in picks_by_gw
    w_compared,     \* the pairs (prev_gw, curr_gw) compared
    w_pc            \* "input", "fetched", "compared" or "idle"

wvars == <<w_current, w_gameweeks, w_requested, w_picks, w_compared, w_pc>>

VARIABLES
    \* ---- the body of the manager loop on its own
    m_history,      \* history['current'] as the API returns it
    m_manager_nodes, \* manager_nodes
    m_performance_nodes, \* performance_nodes
    m_errors,       \* stats['errors']
    m_pc            \* "input", "done" or "idle"

mvars == <<m_history, m_manager_nodes, m_performance_nodes, m_errors, m_pc>>

vars == <<bvars, fvars, cvars, hvars, tvars, rvars, ovars, svars, wvars, mvars>>

Min(a, b) == IF a < b THEN a ELSE b
Max(a, b) == IF a < b THEN b ELSE a

(***************************************************************************)
(* Batched upsert                                                          *)
(***************************************************************************)
batch_size == 100

\* Largest node list the batch specification tries.
MaxNodes == 250

\* Python slice nodes[i:i + batch_size] (i is 0-based).
BatchShort(nodes, i) == SubSeq(nodes, i + 1, Min(i + batch_size - 1, Len(nodes)))
Batch(nodes, i) == SubSeq(nodes, i + 1, Min(i + batch_size, Len(nodes)))

\* len(range(0, n, batch_size))
NumBatches(n) == (n + batch_size - 1) \div batch_size

ScriptModes == {"create_fixture_nodes", "update_formations"}
BatchModes == ScriptModes \cup {"handle"}

BatchInit ==
    /\ b_mode \in BatchModes
    /\ \E n \in 0..MaxNodes : b_nodes = [k \in 1..n |-> k]
    /\ b_i = 0
    /\ b_submitted = <<>>
    /\ b_store = <<>>
    /\ b_count = 0
    /\ b_failed = FALSE
    /\ b_pc = "loop"

BatchIdle ==
    /\ b_mode = "idle"
    /\ b_nodes = <<>>
    /\ b_i = 0
    /\ b_submitted = <<>>
    /\ b_store = <<>>
    /\ b_count = 0
    /\ b_failed = FALSE
    /\ b_pc = "idle"

\* The count a loop reports after a successful apply: the scripts add len(batch)
\* inside the try; the handler assigns stats[...] only after the loop.
CountAfterCommit(mode, count, batch) ==
    IF mode \in ScriptModes THEN count + Len(batch) ELSE count

\* One iteration whose apply call succeeds.
BatchCommit ==
    /\ b_pc = "loop"
    /\ b_i < Len(b_nodes)
    /\ LET batch == Batch(b_nodes, b_i) IN
         /\ b_submitted' = Append(b_submitted, batch)
         /\ b_store' = b_store \o batch
         /\ b_count' = CountAfterCommit(b_mode, b_count, batch)
    /\ b_i' = b_i + batch_size
    /\ UNCHANGED <<b_mode, b_nodes, b_failed, b_pc>>

\* One iteration of a script loop whose apply call throws: the except clause
\* prints and the loop goes on.
BatchFailCaught ==
    /\ b_pc = "loop"
    /\ b_mode \in ScriptModes
    /\ b_i < Len(b_nodes)
    /\ b_submitted' = Append(b_submitted, Batch(b_nodes, b_i))
    /\ b_failed' = TRUE
    /\ b_i' = b_i + batch_size
    /\ UNCHANGED <<b_mode, b_nodes, b_store, b_count, b_pc>>

\* One iteration of a handler loop whose apply call throws: there is no try
\* around the call, the exception leaves the loop.
BatchFailRaised ==
    /\ b_pc = "loop"
    /\ b_mode = "handle"
    /\ b_i < Len(b_nodes)
    /\ b_submitted' = Append(b_submitted, Batch(b_nodes, b_i))
    /\ b_failed' = TRUE
    /\ b_pc' = "raised"
    /\ UNCHANGED <<b_mode, b_nodes, b_i, b_store, b_count>>

\* range() is exhausted: the scripts return the running total, the handler
\* assigns stats[...] = len(nodes).
BatchExit ==
    /\ b_pc = "loop"
    /\ b_i >= Len(b_nodes)
    /\ b_count' = IF b_mode = "handle" THEN Len(b_nodes) ELSE b_count
    /\ b_pc' = "done"
    /\ UNCHANGED <<b_mode, b_nodes, b_i, b_submitted, b_store, b_failed>>

BatchNext ==
    \/ BatchCommit /\ UNCHANGED <<fvars, cvars, hvars, tvars, rvars, ovars, svars, wvars, mvars>>
    \/ BatchFailCaught /\ UNCHANGED <<fvars, cvars, hvars, tvars, rvars, ovars, svars, wvars, mvars>>
    \/ BatchFailRaised /\ UNCHANGED <<fvars, cvars, hvars, tvars, rvars, ovars, svars, wvars, mvars>>
    \/ BatchExit /\ UNCHANGED <<fvars, cvars, hvars, tvars, rvars, ovars, svars, wvars, mvars>>

(***************************************************************************)
(* Players and squads                                                      *)
(***************************************************************************)
\* The bootstrap's player pool: how many players of each element_type it
\* holds (MaxOther counts players whose element_type position_map lacks).
MaxGK == 2
MaxDEF == 5
MaxMID == 5
MaxFWD == 3
MaxOther == 1
\* Largest number of benched picks (multiplier 0) of a generated squad.
MaxBench == 4

NumPlayers == MaxGK + MaxDEF + MaxMID + MaxFWD + MaxOther

\* player['element_type'] of the pool's player p: ids are handed out class
\* by class.
element_type(p) ==
    IF p <= MaxGK THEN 1
    ELSE IF p <= MaxGK + MaxDEF THEN 2
    ELSE IF p <= MaxGK + MaxDEF + MaxMID THEN 3
    ELSE IF p <= MaxGK + MaxDEF + MaxMID + MaxFWD THEN 4
    ELSE 5

\* position_map = {1: "GK", 2: "DEF", 3: "MID", 4: "FWD"}; .get(t, dflt)
position_map(t, dflt) ==
    CASE t = 1 -> "GK"
      [] t = 2 -> "DEF"
      [] t = 3 -> "MID"
      [] t = 4 -> "FWD"
      [] OTHER -> dflt

\* The Player node's position property, as the handler stores it.
StoredPosition(p) == position_map(element_type(p), "Unknown")

\* player_positions of the handler's formation step (None for an unmapped type).
player_positions(p) == position_map(element_type(p), "None")

\* First id of each class, minus one.
ClassBase(t) ==
    CASE t = 1 -> 0
      [] t = 2 -> MaxGK
      [] t = 3 -> MaxGK + MaxDEF
      [] t = 4 -> MaxGK + MaxDEF + MaxMID
      [] OTHER -> MaxGK + MaxDEF + MaxMID + MaxFWD

Range(s) == {s[i] : i \in DOMAIN s}

\* A squad with a[t] non-benched players of element_type t (the first one
\* captained) followed by `bench` benched players, the slots numbered in order.
MakePicks(a, bench) ==
    LET first(t) == [i \in 1..a[t] |-> ClassBase(t) + i]
        starters == first(1) \o first(2) \o first(3) \o first(4) \o first(5)
        rest == SelectSeq([p \in 1..NumPlayers |-> p], LAMBDA p : p \notin Range(starters))
        benched == SubSeq(rest, 1, Min(bench, Len(rest)))
        all == starters \o benched
    IN  [i \in 1..Len(all) |->
            [element |-> all[i],
             position |-> i,
             multiplier |-> IF i > Len(starters) THEN 0 ELSE IF i = 1 THEN 2 ELSE 1]]

Squads ==
    {MakePicks(a, b) :
        a \in {s \in [1..5 -> 0..Max(MaxDEF, MaxMID)] :
                  /\ s[1] <= MaxGK /\ s[2] <= MaxDEF /\ s[3] <= MaxMID
                  /\ s[4] <= MaxFWD /\ s[5] <= MaxOther},
        b \in 0..MaxBench}

Chips == {"none", "bboost", "3xc"}

(***************************************************************************)
(* Formation                                                               *)
(***************************************************************************)
Null == "null"
NotWritten == "(not written)"

\* f"{DEF}-{MID}-{FWD}"
FormationLabel(d, m, f) == ToString(d) \o "-" \o ToString(m) \o "-" \o ToString(f)

\* selections_by_team[team]: what fetch_player_selections reads back from the
\* PlayerSelection nodes the squad stage stored for these picks.
SelectionsOf(picks) ==
    [i \in DOMAIN picks |->
        [player_id |-> picks[i].element, multiplier |-> picks[i].multiplier]]

\* players_dict.get(player_id, {}).get('position', 'UNK')
players_dict_position(p) == IF p \in 1..NumPlayers THEN StoredPosition(p) ELSE "UNK"

CountWhere(s, P(_)) == Cardinality({i \in DOMAIN s : P(s[i])})

\* scripts/update_formations.py calculate_formation
calculate_formation(selections) ==
    LET starting_xi == SelectSeq(selections, LAMBDA s : s.multiplier > 0)
        count(pos) == CountWhere(starting_xi, LAMBDA s : players_dict_position(s.player_id) = pos)
        formation == FormationLabel(count("DEF"), count("MID"), count("FWD"))
    IN  IF Len(starting_xi) # 11 THEN Null
        ELSE IF count("GK") # 1 THEN Null
        ELSE formation

\* update_formations: active_chip and active_chip.lower() in [...]
ScriptBenchBoost(chip) == chip \in {"bboost", "bench boost", "benchboost"}

\* update_formations, one team: the formation it puts in the node it appends,
\* or NotWritten when it appends no node for the team.
ScriptFormationWrite(picks, chip) ==
    IF ScriptBenchBoost(chip) THEN Null
    ELSE IF SelectionsOf(picks) = <<>> THEN NotWritten
    ELSE LET formation == calculate_formation(SelectionsOf(picks))
         IN  IF formation # Null THEN formation ELSE NotWritten

\* handler, formation step: if active_chip == 'bboost': continue
HandleSkipsNever(chip) == FALSE
HandleSkips(chip) == chip = "bboost"

\* handler, formation step, one (manager, gameweek): the formation it puts in
\* formations_data, or NotWritten when it skips the pair.
HandleFormationWrite(picks, chip) ==
    IF HandleSkips(chip) THEN NotWritten
    ELSE LET count(pos) ==
                 CountWhere(picks, LAMBDA pick :
                     pick.position <= 11 /\ player_positions(pick.element) = pos)
         IN  FormationLabel(count("DEF"), count("MID"), count("FWD"))

\* A node that carries only the formation property overwrites that property.
StoreFormation(stored, written) == IF written = NotWritten THEN stored ELSE written

FormationInit ==
    /\ f_picks \in Squads
    /\ f_chip \in Chips
    /\ f_stored = Null      \* the squad stage creates the node without a formation
    /\ f_op = "none"
    /\ f_last = NotWritten

FormationIdle ==
    /\ f_picks = <<>>
    /\ f_chip = "none"
    /\ f_stored = Null
    /\ f_op = "idle"
    /\ f_last = NotWritten

\* calculate_formation is called on the squad's selections.
CalculateFormation ==
    /\ f_op # "idle"
    /\ f_op' = "calculate_formation"
    /\ f_last' = calculate_formation(SelectionsOf(f_picks))
    /\ UNCHANGED <<f_picks, f_chip, f_stored>>

\* The script processes the team and commits its node.
UpdateFormations ==
    /\ f_op # "idle"
    /\ f_op' = "update_formations"
    /\ f_last' = ScriptFormationWrite(f_picks, f_chip)
    /\ f_stored' = StoreFormation(f_stored, ScriptFormationWrite(f_picks, f_chip))
    /\ UNCHANGED <<f_picks, f_chip>>

\* The handler's formation step processes the pair and commits its update.
HandleFormation ==
    /\ f_op # "idle"
    /\ f_op' = "handle"
    /\ f_last' = HandleFormationWrite(f_picks, f_chip)
    /\ f_stored' = StoreFormation(f_stored, HandleFormationWrite(f_picks, f_chip))
    /\ UNCHANGED <<f_picks, f_chip>>

FormationNext ==
    \/ CalculateFormation /\ UNCHANGED <<bvars, cvars, hvars, tvars, rvars, ovars, svars, wvars, mvars>>
    \/ UpdateFormations /\ UNCHANGED <<bvars, cvars, hvars, tvars, rvars, ovars, svars, wvars, mvars>>
    \/ HandleFormation /\ UNCHANGED <<bvars, cvars, hvars, tvars, rvars, ovars, svars, wvars, mvars>>

(***************************************************************************)
(* Consistency score                                                       *)
(***************************************************************************)
\* Longest history and largest ordinary weekly score the score is tried on
\* (the inputs also hold -1 and 50).
MaxHistory == 4
MaxPoints == 3

PointValues == {-1, 50} \cup (0..MaxPoints)

WeeklyPoints == UNION {[1..n -> PointValues] : n \in 0..MaxHistory}

RECURSIVE SumSeq(_)
SumSeq(s) == IF s = <<>> THEN 0 ELSE Head(s) + SumSeq(Tail(s))

SumSquares(s) == SumSeq([i \in DOMAIN s |-> s[i] * s[i]])

\* floor(sqrt(n)), by bisection between lo and hi (lo*lo <= n < hi*hi).
RECURSIVE ISqrtBetween(_, _, _)
ISqrtBetween(n, lo, hi) ==
    IF hi - lo <= 1 THEN lo
    ELSE LET mid == (lo + hi) \div 2
         IN  IF mid * mid <= n THEN ISqrtBetween(n, mid, hi)
             ELSE ISqrtBetween(n, lo, mid)

ISqrt(n) == ISqrtBetween(n, 0, 46340)

\* len(weekly_points) > 1
EnoughWeeksOffByOne(weekly_points) == Len(weekly_points) > 0
EnoughWeeks(weekly_points) == Len(weekly_points) > 1

\* 100 * min(coeff_variation, 1), rounded to a whole number. With n weeks,
\* S the sum and Q the sum of squares, np.std / np.mean = sqrt(n*Q - S*S) / S.
CoeffVariationPct(weekly_points) ==
    LET n == Len(weekly_points)
        S == SumSeq(weekly_points)
        D == n * SumSquares(weekly_points) - S * S
    IN  IF D >= S * S THEN 100
        ELSE (ISqrt(4 * 100 * 100 * D) + S) \div (2 * S)

\* handler.py 397-405: the score of the manager stage. The code computes it
\* in floating point; the model keeps whole points.
consistency_score(weekly_points) ==
    IF EnoughWeeks(weekly_points) /\ SumSeq(weekly_points) > 0
    THEN Max(0, Min(100, 100 - CoeffVariationPct(weekly_points)))
    ELSE 0

ConsistencyInit ==
    /\ c_points \in WeeklyPoints
    /\ c_score = 0
    /\ c_pc = "input"

ConsistencyIdle ==
    /\ c_points = <<>>
    /\ c_score = 0
    /\ c_pc = "idle"

\* The manager stage computes the analytics of one fetched history.
ComputeConsistency ==
    /\ c_pc = "input"
    /\ c_score' = consistency_score(c_points)
    /\ c_pc' = "scored"
    /\ UNCHANGED c_points

ConsistencyNext == ComputeConsistency /\ UNCHANGED <<bvars, fvars, hvars, tvars, rvars, ovars, svars, wvars, mvars>>

(***************************************************************************)
(* handle(): the data the remote API serves                                *)
(***************************************************************************)
\* Sizes of the league the run is tried on, and the number of recoverable
\* failures (caught and skipped) injected into one run.
MaxTeams == 2
MaxManagers == 2
MaxWeeks == 3
MaxFixtures == 3
MaxFaults == 2

\* bootstrap['teams'], bootstrap['events'] and bootstrap['elements'], by id.
teams == [i \in 1..MaxTeams |-> i]
events == [i \in 1..MaxWeeks |-> i]
players == [i \in 1..NumPlayers |-> i]

\* The event flagged is_current.
current_gw == MaxWeeks

\* league_data['standings']['results']: the entry ids, in rank order.
standings == [i \in 1..MaxManagers |-> i]

\* player['form'], in tenths.
FormTenths(p) == ((7 * p) % 10) + (10 * (p % 3))

\* history['current'] of an entry: one record per gameweek played.
HistoryCurrent(entry) ==
    [g \in 1..MaxWeeks |->
        [event |-> g,
         points |-> IF entry % 2 = 1 THEN 50 ELSE 10 * g,
         value |-> 1000 + g,
         event_transfers |-> IF g = 1 THEN 0 ELSE 1,
         event_transfers_cost |-> IF g = MaxWeeks THEN 4 ELSE 0]]

\* The squads the picks endpoint serves.
SquadA == MakePicks(<<1, 4, 4, 2, 0>>, 4)
SquadAll15 == MakePicks(<<2, 5, 5, 3, 0>>, 0)
SquadC == MakePicks(<<1, 4, 4, 1, 1>>, 4)

PicksPayloads ==
    << [picks |-> SquadA, active_chip |-> "none"],
       [picks |-> SquadAll15, active_chip |-> "bboost"],
       [picks |-> <<>>, active_chip |-> "none"],
       [picks |-> SquadC, active_chip |-> "3xc"] >>

\* What get_entry_picks(entry, gw) returns in the run's scenario.
PicksData(sc, entry, gw) ==
    LET p == PicksPayloads[((entry + gw + sc) % Len(PicksPayloads)) + 1]
        h == HistoryCurrent(entry)[gw]
    IN  [picks |-> p.picks,
         active_chip |-> p.active_chip,
         entry_history |-> [points |-> h.points,
                            event_transfers |-> h.event_transfers,
                            event_transfers_cost |-> h.event_transfers_cost]]

\* What get_fixtures() returns; event 0 stands for a fixture without gameweek.
fixtures_raw ==
    [f \in 1..MaxFixtures |->
        [id |-> f,
         event |-> IF f = 2 THEN 0 ELSE Min(f, MaxWeeks),
         team_h |-> 1 + (f % MaxTeams),
         team_a |-> 1 + ((f + 1) % MaxTeams),
         team_h_difficulty |-> 2 + (f % 3),
         team_a_difficulty |-> 2 + ((f + 1) % 3),
         finished |-> f = 1]]

(***************************************************************************)
(* Odds matching (src/odds_fetcher.py)                                     *)
(***************************************************************************)
\* team['name'] of the bootstrap's teams.
TeamName(t) ==
    CASE t = 1 -> "Man City"
      [] t = 2 -> "Arsenal"
      [] t = 3 -> "Spurs"
      [] OTHER -> "Team " \o ToString(t)

\* _get_team_name_mapping(), as used: team_name_mapping.get(name, name).
\* The table maps the provider's names to the FPL names and, in its second
\* half, the FPL names back to the provider's.
team_name_mapping(name) ==
    CASE name = "Manchester City" -> "Man City"
      [] name = "Tottenham Hotspur" -> "Spurs"
      [] name = "Man City" -> "Manchester City"
      [] name = "Spurs" -> "Tottenham Hotspur"
      [] OTHER -> name

OddsFields ==
    {"home_win_odds", "draw_odds", "away_win_odds",
     "home_win_probability", "draw_probability", "away_win_probability"}

\* One record of odds_data; odds in hundredths, probabilities in percent.
OddsRecord(home, away, home_odds) ==
    [home_team |-> home, away_team |-> away,
     home_win_odds |-> home_odds, draw_odds |-> 340, away_win_odds |-> 410,
     home_win_probability |-> 45, draw_probability |-> 28, away_win_probability |-> 27]

\* The inner loop of match_with_fpl_fixtures: the first record whose mapped
\* names equal the fixture's names, as a list of at most one record.
MatchedOdds(odds_data, fpl_fixture) ==
    LET hits == SelectSeq(odds_data, LAMBDA odds :
                    /\ team_name_mapping(odds.home_team) = fpl_fixture.team_h_name
                    /\ team_name_mapping(odds.away_team) = fpl_fixture.team_a_name)
    IN  SubSeq(hits, 1, Min(1, Len(hits)))

\* enriched.update({...}): the six odds fields of the record.
OddsUpdate(odds) == [k \in OddsFields |-> odds[k]]

\* One iteration of the outer loop: what is appended to enriched_fixtures and
\* what the input fixture is afterwards. The update is made on a copy.
MatchOneInPlace(odds_data, fpl_fixture) ==
    LET matched == MatchedOdds(odds_data, fpl_fixture)
        enriched == IF matched # <<>> THEN OddsUpdate(matched[1]) @@ fpl_fixture
                    ELSE fpl_fixture
    IN  [enriched |-> enriched, original |-> enriched]
MatchOne(odds_data, fpl_fixture) ==
    LET matched == MatchedOdds(odds_data, fpl_fixture)
        enriched == IF matched # <<>> THEN OddsUpdate(matched[1]) @@ fpl_fixture
                    ELSE fpl_fixture
    IN  [enriched |-> enriched, original |-> fpl_fixture]

\* OddsFetcher.match_with_fpl_fixtures: the list it returns.
match_with_fpl_fixtures(odds_data, fpl_fixtures) ==
    [i \in DOMAIN fpl_fixtures |-> MatchOne(odds_data, fpl_fixtures[i]).enriched]

\* The caller's fixture list after the call.
FixturesAfterMatch(odds_data, fpl_fixtures) ==
    [i \in DOMAIN fpl_fixtures |-> MatchOne(odds_data, fpl_fixtures[i]).original]

\* fixture.get('home_win_odds') is truthy.
HasOdds(fixture) == "home_win_odds" \in DOMAIN fixture /\ fixture.home_win_odds # 0

\* What fetch_premier_league_odds() returns in a run of handle().
odds_data ==
    << OddsRecord("Manchester City", "Arsenal", 150),
       OddsRecord("Arsenal", "Man City", 390),
       OddsRecord("Tottenham Hotspur", "Man City", 0) >>

\* ODDS_AVAILABLE and os.getenv("ODDS_API_KEY"), by the run's scenario.
OddsConfigured(sc) == sc % 2 = 1

(***************************************************************************)
(* handle(): nodes and the instance store                                  *)
(***************************************************************************)
Node(ext, view, props) == [external_id |-> ext, view |-> view, properties |-> props]

GwId(prefix, entry, gw) == prefix \o ToString(entry) \o "_gw" \o ToString(gw)

TeamNode(t) == Node("team_" \o ToString(t), "PLTeam", [teamId |-> t])

GameweekNode(e) ==
    Node("gameweek_" \o ToString(e), "Gameweek", [gameweekNumber |-> e, isCurrent |-> e = current_gw])

PlayerNode(p) ==
    Node("player_" \o ToString(p), "Player",
         [playerId |-> p, position |-> StoredPosition(p), formTenths |-> FormTenths(p)])

FixtureNode(f) ==
    Node("fixture_" \o ToString(f.id), "Fixture",
         [fixtureId |-> f.id,
          gameweek |-> "gameweek_" \o ToString(f.event),
          homeTeam |-> "team_" \o ToString(f.team_h),
          awayTeam |-> "team_" \o ToString(f.team_a),
          isFinished |-> f.finished]
         @@ (IF HasOdds(f)
             THEN [homeWinOdds |-> f.home_win_odds, drawOdds |-> f.draw_odds,
                   awayWinOdds |-> f.away_win_odds,
                   homeWinProbability |-> f.home_win_probability,
                   drawProbability |-> f.draw_probability,
                   awayWinProbability |-> f.away_win_probability]
             ELSE <<>>))

\* fixture_nodes: one node per fixture that has a gameweek.
\* The fixture loop of step 2.5: `if not gameweek: continue`.
FixtureNodesUnfiltered(raw) == [i \in DOMAIN raw |-> FixtureNode(raw[i])]
FixtureNodes(raw) ==
    LET kept == SelectSeq(raw, LAMBDA f : f.event # 0)
    IN  [i \in DOMAIN kept |-> FixtureNode(kept[i])]

\* fixture.get(key) of the script: the odds field or None.
OddsProperty(f, key) == IF key \in DOMAIN f THEN f[key] ELSE Null

\* create_fixture_nodes of load_fixtures.py: the nodes it builds.
create_fixture_nodes(raw) ==
    LET kept == SelectSeq(raw, LAMBDA f : f.event # 0)
    IN  [i \in DOMAIN kept |->
            Node("fixture_" \o ToString(kept[i].id), "Fixture",
                 [fixtureId |-> kept[i].id,
                  gameweek |-> "gameweek_" \o ToString(kept[i].event),
                  homeTeam |-> "team_" \o ToString(kept[i].team_h),
                  awayTeam |-> "team_" \o ToString(kept[i].team_a),
                  isFinished |-> kept[i].finished,
                  homeWinOdds |-> OddsProperty(kept[i], "home_win_odds"),
                  drawOdds |-> OddsProperty(kept[i], "draw_odds"),
                  awayWinOdds |-> OddsProperty(kept[i], "away_win_odds"),
                  homeWinProbability |-> OddsProperty(kept[i], "home_win_probability"),
                  drawProbability |-> OddsProperty(kept[i], "draw_probability"),
                  awayWinProbability |-> OddsProperty(kept[i], "away_win_probability")])]

\* The team update of step 2.5: next unfinished fixture and the mean
\* difficulty (kept as sum and count) of the next five.
\* sum(xs) / len(xs) if xs else None, kept as the fraction sum over count.
MeanOrNone(xs) == [is_none |-> xs = <<>>, sum |-> SumSeq(xs), count |-> Len(xs)]

\* A team update that averages over every unfinished fixture of the team.
TeamUpdateNodeAll(t, raw) ==
    LET next_fixtures == SelectSeq(raw, LAMBDA f : (f.team_h = t \/ f.team_a = t) /\ ~f.finished)
        diff(f) == IF f.team_h = t THEN f.team_h_difficulty ELSE f.team_a_difficulty
    IN  Node("team_" \o ToString(t), "PLTeam",
             [teamId |-> t,
              upcomingFixtureDifficulty |->
                  MeanOrNone([i \in DOMAIN next_fixtures |-> diff(next_fixtures[i])]),
              nextFixture |-> IF next_fixtures # <<>>
                              THEN "fixture_" \o ToString(next_fixtures[1].id)
                              ELSE Null])

TeamUpdateNode(t, raw) ==
    LET next_fixtures == SelectSeq(raw, LAMBDA f : (f.team_h = t \/ f.team_a = t) /\ ~f.finished)
        upcoming == SubSeq(next_fixtures, 1, Min(5, Len(next_fixtures)))
        diff(f) == IF f.team_h = t THEN f.team_h_difficulty ELSE f.team_a_difficulty
    IN  Node("team_" \o ToString(t), "PLTeam",
             [teamId |-> t,
              upcomingFixtureDifficulty |->
                  MeanOrNone([i \in DOMAIN upcoming |-> diff(upcoming[i])]),
              nextFixture |-> IF next_fixtures # <<>>
                              THEN "fixture_" \o ToString(next_fixtures[1].id)
                              ELSE Null])

\* instances.apply(nodes): every node is created, or its properties are
\* written over those the store holds under the same external id.
\* An apply that also counts, per instance, how often it was written.
UpsertVersioned(st, nodes) ==
    [n \in {nodes[i].external_id : i \in DOMAIN nodes} |->
        [version |-> IF n \in DOMAIN st THEN st[n].version + 1 ELSE 1]] @@ st

RECURSIVE MergeProperties(_, _)
MergeProperties(props, writes) ==
    IF writes = <<>> THEN props
    ELSE MergeProperties(Head(writes).properties @@ props, Tail(writes))

Upsert(st, nodes) ==
    LET ids == {nodes[i].external_id : i \in DOMAIN nodes}
        held(id) == IF id \in DOMAIN st THEN st[id] ELSE <<>>
        writes(id) == SelectSeq(nodes, LAMBDA n : n.external_id = id)
    IN  [id \in ids |-> MergeProperties(held(id), writes(id))] @@ st

\* The batches a handler loop commits before the apply call of batch failAt
\* throws (failAt = 0: no call throws), as one node list.
CommittedBefore(nodes, failAt) ==
    IF failAt = 0 THEN nodes
    ELSE SubSeq(nodes, 1, Min(Len(nodes), batch_size * (failAt - 1)))

Call(op, view, entry, gw, ok) == [op |-> op, view |-> view, entry |-> entry, gw |-> gw, ok |-> ok]

\* The apply calls of a handler batch loop whose batch failAt throws.
BatchCalls(view, nodes, failAt) ==
    LET last == IF failAt = 0 THEN NumBatches(Len(nodes)) ELSE failAt
    IN  [j \in 1..last |-> Call("apply", view, 0, j, j # failAt)]

ErrorEntry(ctx, entry, gw) == [ctx |-> ctx, entry |-> entry, gw |-> gw]

InitialStats ==
    [teams |-> 0, fixtures |-> 0, fixtures_with_odds |-> 0, gameweeks |-> 0, players |-> 0,
     managers |-> 0, performance_records |-> 0, manager_teams |-> 0, player_selections |-> 0,
     transfers |-> 0, team_betting_records |-> 0, formations_calculated |-> 0, errors |-> <<>>]

\* The except clause that closes handle(): the summary it returns.
OuterExceptReraises(st) == [status |-> "raised", message |-> "", stats |-> InitialStats, timestamp |-> ""]
OuterExcept(st) == [status |-> "error", message |-> "str(e)", stats |-> st, timestamp |-> "now"]

Running == [status |-> "running", message |-> "", stats |-> InitialStats, timestamp |-> ""]

HandleInit ==
    /\ pc = "bootstrap"
    /\ idx = 1
    /\ gwi = 1
    /\ scenario \in 0..(Len(PicksPayloads) - 1)
    /\ faults = 0
    /\ calls = <<>>
    /\ store = <<>>
    /\ stats = InitialStats
    /\ manager_histories = <<>>
    /\ manager_nodes = <<>>
    /\ performance_nodes = <<>>
    /\ manager_team_nodes = <<>>
    /\ player_selection_nodes = <<>>
    /\ formations_data = <<>>
    /\ picks_by_gw = <<>>
    /\ all_transfers = <<>>
    /\ result = Running

HandleIdle ==
    /\ pc = "idle"
    /\ idx = 1
    /\ gwi = 1
    /\ scenario = 0
    /\ faults = 0
    /\ calls = <<>>
    /\ store = <<>>
    /\ stats = InitialStats
    /\ manager_histories = <<>>
    /\ manager_nodes = <<>>
    /\ performance_nodes = <<>>
    /\ manager_team_nodes = <<>>
    /\ player_selection_nodes = <<>>
    /\ formations_data = <<>>
    /\ picks_by_gw = <<>>
    /\ all_transfers = <<>>
    /\ result = Running

nodevars == <<manager_histories, manager_nodes, performance_nodes, manager_team_nodes,
              player_selection_nodes, formations_data, picks_by_gw, all_transfers>>

\* An exception reaches the except clause of handle(): the run returns.
Raise(newcalls, newstore) ==
    /\ calls' = newcalls
    /\ store' = newstore
    /\ pc' = "returned"
    /\ result' = OuterExcept(stats)
    /\ UNCHANGED <<idx, gwi, scenario, faults, stats, nodevars>>

\* A step that ends normally and moves to the step `to`.
Goto(to, newcalls, newstore, newstats) ==
    /\ calls' = newcalls
    /\ store' = newstore
    /\ stats' = newstats
    /\ pc' = to
    /\ UNCHANGED <<scenario, result>>

(***************************************************************************)
(* handle(): steps 1 to 4                                                  *)
(***************************************************************************)
\* A throwing bootstrap fetch is not caught before the except clause that
\* closes handle().
BootstrapExceptSwallowed(newcalls) ==
    Goto("teams", newcalls, store, stats) /\ UNCHANGED <<idx, gwi, faults, nodevars>>
BootstrapExcept(newcalls) == Raise(newcalls, store)

\* Step 1: get_bootstrap_static().
FetchBootstrap ==
    /\ pc = "bootstrap"
    /\ \E ok \in BOOLEAN :
         LET c == Append(calls, Call("get_bootstrap_static", "", 0, 0, ok))
         IN  IF ok
             THEN Goto("current_gw", c, store, stats) /\ UNCHANGED <<idx, gwi, faults, nodevars>>
             ELSE BootstrapExcept(c)

\* Step 1: get_current_gameweek() fetches the bootstrap a second time.
FetchCurrentGameweek ==
    /\ pc = "current_gw"
    /\ \E ok \in BOOLEAN :
         LET c == Append(calls, Call("get_current_gameweek", "", 0, 0, ok))
         IN  IF ok
             THEN Goto("teams", c, store, stats) /\ UNCHANGED <<idx, gwi, faults, nodevars>>
             ELSE BootstrapExcept(c)

\* Step 2: one apply call for all team nodes.
LoadTeams ==
    /\ pc = "teams"
    /\ \E ok \in BOOLEAN :
         LET team_nodes == [i \in DOMAIN teams |-> TeamNode(teams[i])]
             c == Append(calls, Call("apply", "PLTeam", 0, 1, ok))
         IN  IF ok
             THEN /\ Goto("fixtures", c, Upsert(store, team_nodes),
                          [stats EXCEPT !.teams = Len(team_nodes)])
                  /\ UNCHANGED <<idx, gwi, faults, nodevars>>
             ELSE Raise(c, store)

\* The except clause of step 2.5: the error is recorded and the run goes on
\* with step 3.
FixturesExcept(newcalls, newstore) ==
    /\ faults < MaxFaults
    /\ faults' = faults + 1
    /\ Goto("gameweeks", newcalls, newstore,
            [stats EXCEPT !.errors = Append(@, ErrorEntry("Fixtures", 0, 0))])
    /\ UNCHANGED <<idx, gwi, nodevars>>

\* Step 2.5: get_fixtures().
FetchFixtures ==
    /\ pc = "fixtures"
    /\ \E ok \in BOOLEAN :
         LET c == Append(calls, Call("get_fixtures", "", 0, 0, ok))
         IN  IF ok
             THEN Goto("odds", c, store, stats) /\ UNCHANGED <<idx, gwi, faults, nodevars>>
             ELSE FixturesExcept(c, store)

\* The fixtures with the team names the handler adds before matching.
fixtures_named ==
    [i \in DOMAIN fixtures_raw |->
        [team_h_name |-> TeamName(fixtures_raw[i].team_h),
         team_a_name |-> TeamName(fixtures_raw[i].team_a)] @@ fixtures_raw[i]]

\* The odds were fetched in this run.
OddsFetched == \E i \in DOMAIN calls : calls[i].op = "fetch_premier_league_odds" /\ calls[i].ok

\* fixtures_raw as the rest of step 2.5 sees it.
fixtures_loaded ==
    IF OddsFetched THEN match_with_fpl_fixtures(odds_data, fixtures_named) ELSE fixtures_raw

\* The except clause around the odds fetch: it prints and step 2.5 goes on.
OddsExcept(newcalls) ==
    /\ faults < MaxFaults
    /\ faults' = faults + 1
    /\ Goto("fixture_nodes", newcalls, store, stats)
    /\ UNCHANGED <<idx, gwi, nodevars>>

\* Step 2.5: the odds are fetched when the fetcher and its key are there,
\* and matched with the fixtures.
FetchOdds ==
    /\ pc = "odds"
    /\ IF ~OddsConfigured(scenario)
       THEN Goto("fixture_nodes", calls, store, stats) /\ UNCHANGED <<idx, gwi, faults, nodevars>>
       ELSE \E ok \in BOOLEAN :
              LET c == Append(calls, Call("fetch_premier_league_odds", "", 0, 0, ok))
                  matched == match_with_fpl_fixtures(odds_data, fixtures_named)
              IN  IF ok
                  THEN /\ Goto("fixture_nodes", c, store,
                               [stats EXCEPT !.fixtures_with_odds =
                                   Cardinality({i \in DOMAIN matched : HasOdds(matched[i])})])
                       /\ UNCHANGED <<idx, gwi, faults, nodevars>>
                  ELSE OddsExcept(c)

\* Step 2.5: the fixture nodes are built and committed in batches.
LoadFixtures ==
    /\ pc = "fixture_nodes"
    /\ LET fixture_nodes == FixtureNodes(fixtures_loaded) IN
       \E failAt \in 0..NumBatches(Len(fixture_nodes)) :
         LET c == calls \o BatchCalls("Fixture", fixture_nodes, failAt)
             st == Upsert(store, CommittedBefore(fixture_nodes, failAt))
         IN  IF failAt = 0
             THEN /\ Goto("team_strength", c, st, [stats EXCEPT !.fixtures = Len(fixture_nodes)])
                  /\ UNCHANGED <<idx, gwi, faults, nodevars>>
             ELSE FixturesExcept(c, st)

\* Step 2.5: one apply call per team; the call of team failAt throws.
UpdateTeamStrength ==
    /\ pc = "team_strength"
    /\ \E failAt \in 0..Len(teams) :
         LET last == IF failAt = 0 THEN Len(teams) ELSE failAt
             done == IF failAt = 0 THEN Len(teams) ELSE failAt - 1
             c == calls \o [j \in 1..last |-> Call("apply", "PLTeam", 0, j, j # failAt)]
             st == Upsert(store, [j \in 1..done |-> TeamUpdateNode(teams[j], fixtures_loaded)])
         IN  IF failAt = 0
             THEN Goto("gameweeks", c, st, stats) /\ UNCHANGED <<idx, gwi, faults, nodevars>>
             ELSE FixturesExcept(c, st)

\* Step 3: one apply call for all gameweek nodes.
LoadGameweeks ==
    /\ pc = "gameweeks"
    /\ \E ok \in BOOLEAN :
         LET gameweek_nodes == [i \in DOMAIN events |-> GameweekNode(events[i])]
             c == Append(calls, Call("apply", "Gameweek", 0, 1, ok))
         IN  IF ok
             THEN /\ Goto("players", c, Upsert(store, gameweek_nodes),
                          [stats EXCEPT !.gameweeks = Len(gameweek_nodes)])
                  /\ UNCHANGED <<idx, gwi, faults, nodevars>>
             ELSE Raise(c, store)

\* A handler batch loop outside any inner try: the batches before failAt are
\* committed; a throwing call ends the run, otherwise the count is set in
\* stats and the next step starts its loops afresh.
HandleBatchLoop(view, nodes, to, newstats) ==
    \E failAt \in 0..NumBatches(Len(nodes)) :
        LET c == calls \o BatchCalls(view, nodes, failAt)
            st == Upsert(store, CommittedBefore(nodes, failAt))
        IN  IF failAt = 0
            THEN Goto(to, c, st, newstats) /\ idx' = 1 /\ gwi' = 1
            ELSE Raise(c, st)

\* Step 4: the player nodes are committed in batches.
LoadPlayers ==
    /\ pc = "players"
    /\ LET player_nodes == [i \in DOMAIN players |-> PlayerNode(players[i])] IN
         HandleBatchLoop("Player", player_nodes, "standings",
                         [stats EXCEPT !.players = Len(player_nodes)])
    /\ UNCHANGED <<faults, nodevars>>

(***************************************************************************)
(* handle(): step 5, managers and performance                              *)
(***************************************************************************)
\* get_league_standings(); an exception here ends the run.
FetchStandings ==
    /\ pc = "standings"
    /\ \E ok \in BOOLEAN :
         LET c == Append(calls, Call("get_league_standings", "", 0, 0, ok))
         IN  IF ok
             THEN /\ Goto(IF Len(standings) = 0 THEN "apply_managers" ELSE "managers",
                          c, store, stats)
                  /\ idx' = 1
                  /\ UNCHANGED <<gwi, faults, nodevars>>
             ELSE Raise(c, store)

ManagerNode(entry, current_gw_data) ==
    LET weekly_points == [i \in DOMAIN current_gw_data |-> current_gw_data[i].points]
    IN  Node("manager_" \o ToString(entry), "Manager",
             [entryId |-> entry,
              consistencyScore |-> consistency_score(weekly_points),
              teamValueTenths |-> IF current_gw_data # <<>>
                                  THEN current_gw_data[Len(current_gw_data)].value
                                  ELSE 1000,
              totalTransfers |->
                  SumSeq([i \in DOMAIN current_gw_data |-> current_gw_data[i].event_transfers])])

PerformanceNode(entry, gw_data) ==
    Node(GwId("performance_", entry, gw_data.event), "ManagerGameweekPerformance",
         [manager |-> "manager_" \o ToString(entry),
          gameweek |-> "gameweek_" \o ToString(gw_data.event),
          points |-> gw_data.points,
          transfers |-> gw_data.event_transfers,
          transferCost |-> gw_data.event_transfers_cost])

\* Where a loop over standings goes after the manager at idx.
AfterManager(loop, next) == IF idx >= Len(standings) THEN next ELSE loop

\* The body of the manager loop when get_entry_history succeeds.
ManagerLoopBody ==
    LET entry == standings[idx]
        current_gw_data == HistoryCurrent(entry)
    IN  /\ manager_histories' = (entry :> current_gw_data) @@ manager_histories
        /\ manager_nodes' = Append(manager_nodes, ManagerNode(entry, current_gw_data))
        /\ performance_nodes' = performance_nodes \o
               [i \in DOMAIN current_gw_data |-> PerformanceNode(entry, current_gw_data[i])]
        /\ calls' = calls \o << Call("get_entry_history", "", entry, 0, TRUE),
                                Call("sleep", "", entry, 0, TRUE) >>
        /\ UNCHANGED <<stats, faults>>

\* The except clause of the manager loop: the error is recorded, the manager
\* is skipped.
ManagerLoopExceptSilent ==
    LET entry == standings[idx]
    IN  /\ calls' = Append(calls, Call("get_entry_history", "", entry, 0, FALSE))
        /\ faults' = faults + 1
        /\ UNCHANGED <<stats, manager_histories, manager_nodes, performance_nodes>>

ManagerLoopExcept ==
    LET entry == standings[idx]
    IN  /\ stats' = [stats EXCEPT !.errors = Append(@, ErrorEntry("Manager", entry, 0))]
        /\ calls' = Append(calls, Call("get_entry_history", "", entry, 0, FALSE))
        /\ faults' = faults + 1
        /\ UNCHANGED <<manager_histories, manager_nodes, performance_nodes>>

\* One iteration of the manager loop whose history fetch succeeds.
ManagerHistory ==
    /\ pc = "managers"
    /\ ManagerLoopBody
    /\ idx' = idx + 1
    /\ pc' = AfterManager("managers", "apply_managers")
    /\ UNCHANGED <<gwi, scenario, store, result, manager_team_nodes, player_selection_nodes,
                   formations_data, picks_by_gw, all_transfers>>

\* One iteration of the manager loop whose history fetch throws.
ManagerHistoryFails ==
    /\ pc = "managers"
    /\ faults < MaxFaults
    /\ ManagerLoopExcept
    /\ idx' = idx + 1
    /\ pc' = AfterManager("managers", "apply_managers")
    /\ UNCHANGED <<gwi, scenario, store, result, manager_team_nodes, player_selection_nodes,
                   formations_data, picks_by_gw, all_transfers>>

\* One apply call for all manager nodes.
ApplyManagers ==
    /\ pc = "apply_managers"
    /\ \E ok \in BOOLEAN :
         LET c == Append(calls, Call("apply", "Manager", 0, 1, ok))
         IN  IF ok
             THEN /\ Goto("apply_performance", c, Upsert(store, manager_nodes),
                          [stats EXCEPT !.managers = Len(manager_nodes)])
                  /\ UNCHANGED <<idx, gwi, faults, nodevars>>
             ELSE Raise(c, store)

\* The performance nodes are committed in batches.
ApplyPerformance ==
    /\ pc = "apply_performance"
    /\ HandleBatchLoop("ManagerGameweekPerformance", performance_nodes, "squads",
                       [stats EXCEPT !.performance_records = Len(performance_nodes)])
    /\ UNCHANGED <<faults, nodevars>>

(***************************************************************************)
(* handle(): step 6, manager teams and player selections                   *)
(***************************************************************************)
\* [gw['event'] for gw in manager_histories.get(entry_id, {}).get('current', [])]
GameweeksOf(entry) ==
    IF entry \in DOMAIN manager_histories
    THEN [i \in DOMAIN manager_histories[entry] |-> manager_histories[entry][i].event]
    ELSE <<>>

ManagerTeamNode(entry, gw, picks_data) ==
    Node(GwId("managerteam_", entry, gw), "ManagerTeam",
         [manager |-> "manager_" \o ToString(entry),
          gameweek |-> "gameweek_" \o ToString(gw),
          totalPoints |-> picks_data.entry_history.points,
          activeChip |-> picks_data.active_chip])

PlayerSelectionNode(entry, gw, pick) ==
    Node(GwId("selection_", entry, gw) \o "_p" \o ToString(pick.element)
             \o "_pos" \o ToString(pick.position),
         "PlayerSelection",
         [managerTeam |-> GwId("managerteam_", entry, gw),
          player |-> "player_" \o ToString(pick.element),
          position |-> pick.position,
          multiplier |-> pick.multiplier])

\* The manager a loop over standings is at still has a gameweek to fetch.
HasGameweek(gws) == idx <= Len(standings) /\ gwi <= Len(gws)

\* One iteration of the picks loop whose fetch succeeds.
SquadPicks ==
    /\ pc = "squads"
    /\ HasGameweek(GameweeksOf(standings[idx]))
    /\ LET entry == standings[idx]
           gw == GameweeksOf(entry)[gwi]
           picks_data == PicksData(scenario, entry, gw)
       IN  /\ manager_team_nodes' = Append(manager_team_nodes, ManagerTeamNode(entry, gw, picks_data))
           /\ player_selection_nodes' = player_selection_nodes \o
                  [i \in DOMAIN picks_data.picks |-> PlayerSelectionNode(entry, gw, picks_data.picks[i])]
           /\ calls' = calls \o << Call("get_entry_picks", "squads", entry, gw, TRUE),
                                   Call("sleep", "squads", entry, gw, TRUE) >>
    /\ gwi' = gwi + 1
    /\ UNCHANGED <<pc, idx, scenario, faults, store, stats, result, manager_histories,
                   manager_nodes, performance_nodes, formations_data, picks_by_gw, all_transfers>>

\* The except clause of the picks loop: the error list afterwards.
SquadLoopExceptSilent(errors, entry, gw) == errors
SquadLoopExcept(errors, entry, gw) == Append(errors, ErrorEntry("Picks", entry, gw))

\* One iteration of the picks loop whose fetch throws: the error is recorded.
SquadPicksFails ==
    /\ pc = "squads"
    /\ HasGameweek(GameweeksOf(standings[idx]))
    /\ faults < MaxFaults
    /\ LET entry == standings[idx]
           gw == GameweeksOf(entry)[gwi]
       IN  /\ stats' = [stats EXCEPT !.errors = SquadLoopExcept(@, entry, gw)]
           /\ calls' = Append(calls, Call("get_entry_picks", "squads", entry, gw, FALSE))
    /\ faults' = faults + 1
    /\ gwi' = gwi + 1
    /\ UNCHANGED <<pc, idx, scenario, store, result, nodevars>>

\* The gameweeks of the manager at idx are exhausted: on to the next manager.
SquadNextManager ==
    /\ pc = "squads"
    /\ ~HasGameweek(GameweeksOf(standings[idx]))
    /\ idx' = idx + 1
    /\ gwi' = 1
    /\ pc' = AfterManager("squads", "apply_manager_teams")
    /\ UNCHANGED <<scenario, faults, calls, store, stats, result, nodevars>>

ApplyManagerTeams ==
    /\ pc = "apply_manager_teams"
    /\ HandleBatchLoop("ManagerTeam", manager_team_nodes, "apply_selections",
                       [stats EXCEPT !.manager_teams = Len(manager_team_nodes)])
    /\ UNCHANGED <<faults, nodevars>>

ApplySelections ==
    /\ pc = "apply_selections"
    /\ HandleBatchLoop("PlayerSelection", player_selection_nodes, "formations",
                       [stats EXCEPT !.player_selections = Len(player_selection_nodes)])
    /\ UNCHANGED <<faults, nodevars>>

(***************************************************************************)
(* handle(): step 6.5, formations                                          *)
(***************************************************************************)
\* formations_data[ext_id] = {...}: a new key is appended, a known key keeps
\* its place and takes the new value.
DictSet(d, key, value) ==
    IF \E i \in DOMAIN d : d[i].key = key
    THEN [i \in DOMAIN d |-> IF d[i].key = key THEN [key |-> key, value |-> value] ELSE d[i]]
    ELSE Append(d, [key |-> key, value |-> value])

\* One iteration of the formation loop whose fetch succeeds.
FormationPicks ==
    /\ pc = "formations"
    /\ HasGameweek(GameweeksOf(standings[idx]))
    /\ LET entry == standings[idx]
           gw == GameweeksOf(entry)[gwi]
           picks_data == PicksData(scenario, entry, gw)
           written == HandleFormationWrite(picks_data.picks, picks_data.active_chip)
       IN  IF written = NotWritten
           THEN /\ calls' = Append(calls, Call("get_entry_picks", "formations", entry, gw, TRUE))
                /\ UNCHANGED formations_data
           ELSE /\ calls' = calls \o << Call("get_entry_picks", "formations", entry, gw, TRUE),
                                        Call("sleep", "formations", entry, gw, TRUE) >>
                /\ formations_data' = DictSet(formations_data, GwId("managerteam_", entry, gw), written)
    /\ gwi' = gwi + 1
    /\ UNCHANGED <<pc, idx, scenario, faults, store, stats, result, manager_histories,
                   manager_nodes, performance_nodes, manager_team_nodes, player_selection_nodes,
                   picks_by_gw, all_transfers>>

\* One iteration of the formation loop whose fetch throws: the except clause
\* only continues.
FormationPicksFails ==
    /\ pc = "formations"
    /\ HasGameweek(GameweeksOf(standings[idx]))
    /\ faults < MaxFaults
    /\ LET entry == standings[idx]
           gw == GameweeksOf(entry)[gwi]
       IN  calls' = Append(calls, Call("get_entry_picks", "formations", entry, gw, FALSE))
    /\ faults' = faults + 1
    /\ gwi' = gwi + 1
    /\ UNCHANGED <<pc, idx, scenario, store, stats, result, nodevars>>

FormationNextManager ==
    /\ pc = "formations"
    /\ ~HasGameweek(GameweeksOf(standings[idx]))
    /\ idx' = idx + 1
    /\ gwi' = 1
    /\ pc' = AfterManager("formations", "apply_formations")
    /\ UNCHANGED <<scenario, faults, calls, store, stats, result, nodevars>>

FormationUpdateNode(item) == Node(item.key, "ManagerTeam", [formation |-> item.value])

ApplyFormations ==
    /\ pc = "apply_formations"
    /\ LET formation_updates == [i \in DOMAIN formations_data |-> FormationUpdateNode(formations_data[i])]
       IN  HandleBatchLoop("ManagerTeam", formation_updates, "transfers",
                           [stats EXCEPT !.formations_calculated = Len(formation_updates)])
    /\ UNCHANGED <<faults, nodevars>>

(***************************************************************************)
(* handle(): step 7, transfers                                             *)
(***************************************************************************)
\* range(max(1, current_gw - 4), current_gw + 1)
RecentGameweeksWholeSeason(current) == 1..current
RecentGameweeks(current) == Max(1, current - 4)..current

recent_gameweeks == RecentGameweeks(current_gw)

\* [g for g in gameweeks if g in recent_gameweeks]
RecentGameweeksOf(entry) == SelectSeq(GameweeksOf(entry), LAMBDA g : g \in recent_gameweeks)

\* sorted(picks_by_gw.keys())
RECURSIVE SortedSeq(_)
SortedSeq(S) ==
    IF S = {} THEN <<>>
    ELSE LET least == CHOOSE x \in S : \A y \in S : x <= y
         IN  <<least>> \o SortedSeq(S \ {least})

sorted_gws == SortedSeq(DOMAIN picks_by_gw)

\* {pick['element'] for pick in picks}
SquadOf(picks) == {picks[i].element : i \in DOMAIN picks}

\* Every player in paired with every player out.
ZipsProduct(players_in, players_out) ==
    {z \in [1..(Cardinality(players_in) * Cardinality(players_out)) -> players_in \X players_out] :
        \A i, j \in DOMAIN z : i # j => z[i] # z[j]}

\* zip(list(players_in), list(players_out)): the lists enumerate the sets in
\* an order the code does not fix; every pairing they can produce.
Zips(players_in, players_out) ==
    LET k == Min(Cardinality(players_in), Cardinality(players_out))
    IN  {z \in [1..k -> players_in \X players_out] :
            \A i, j \in 1..k : i # j => (z[i][1] # z[j][1] /\ z[i][2] # z[j][2])}

\* int(round(x)) of a number given in tenths (round half to even).
RoundTenths(x) ==
    LET q == x \div 10
        r == x % 10
    IN  IF r < 5 THEN q
        ELSE IF r > 5 THEN q + 1
        ELSE IF q % 2 = 0 THEN q ELSE q + 1

\* A record whose cost is the gameweek's whole transfer cost.
TransferRecordTotalCost(entry, curr_gw, player_in_id, player_out_id, entry_history) ==
    LET net_tenths == (FormTenths(player_in_id) - FormTenths(player_out_id)) * 3
    IN  [entry_id |-> entry,
         gameweek |-> curr_gw,
         player_in_id |-> player_in_id,
         player_out_id |-> player_out_id,
         transfer_cost |-> entry_history.event_transfers_cost,
         net_benefit |-> RoundTenths(net_tenths),
         was_successful |-> net_tenths > 10 * entry_history.event_transfers_cost]

\* One record of all_transfers. cost_per_transfer is transfer_cost /
\* num_transfers (0 when num_transfers is 0); net_benefit is kept in tenths.
TransferRecord(entry, curr_gw, player_in_id, player_out_id, entry_history) ==
    LET transfer_cost == entry_history.event_transfers_cost
        num_transfers == entry_history.event_transfers
        cost_num == IF num_transfers > 0 THEN transfer_cost ELSE 0
        cost_den == IF num_transfers > 0 THEN num_transfers ELSE 1
        net_tenths == (FormTenths(player_in_id) - FormTenths(player_out_id)) * 3
    IN  [entry_id |-> entry,
         gameweek |-> curr_gw,
         player_in_id |-> player_in_id,
         player_out_id |-> player_out_id,
         transfer_cost |-> cost_num \div cost_den,
         net_benefit |-> RoundTenths(net_tenths),
         was_successful |-> net_tenths * cost_den > 10 * cost_num]

TransferNode(t) ==
    Node("transfer_" \o ToString(t.entry_id) \o "_gw" \o ToString(t.gameweek) \o "_"
             \o ToString(t.player_out_id) \o "to" \o ToString(t.player_in_id),
         "Transfer",
         [manager |-> "manager_" \o ToString(t.entry_id),
          gameweek |-> "gameweek_" \o ToString(t.gameweek),
          playerIn |-> "player_" \o ToString(t.player_in_id),
          playerOut |-> "player_" \o ToString(t.player_out_id),
          transferCost |-> t.transfer_cost,
          wasSuccessful |-> t.was_successful,
          netBenefit |-> t.net_benefit])

\* One iteration of the transfer stage's picks loop whose fetch succeeds.
TransferPicks ==
    /\ pc = "transfers"
    /\ HasGameweek(RecentGameweeksOf(standings[idx]))
    /\ LET entry == standings[idx]
           gw == RecentGameweeksOf(entry)[gwi]
           picks_data == PicksData(scenario, entry, gw)
       IN  /\ picks_by_gw' = (gw :> [picks |-> picks_data.picks,
                                     transfers |-> picks_data.entry_history]) @@ picks_by_gw
           /\ calls' = calls \o << Call("get_entry_picks", "transfers", entry, gw, TRUE),
                                   Call("sleep", "transfers", entry, gw, TRUE) >>
    /\ gwi' = gwi + 1
    /\ UNCHANGED <<pc, idx, scenario, faults, store, stats, result, manager_histories,
                   manager_nodes, performance_nodes, manager_team_nodes, player_selection_nodes,
                   formations_data, all_transfers>>

\* One iteration of that loop whose fetch throws: the bare except continues.
TransferPicksFails ==
    /\ pc = "transfers"
    /\ HasGameweek(RecentGameweeksOf(standings[idx]))
    /\ faults < MaxFaults
    /\ LET entry == standings[idx]
           gw == RecentGameweeksOf(entry)[gwi]
       IN  calls' = Append(calls, Call("get_entry_picks", "transfers", entry, gw, FALSE))
    /\ faults' = faults + 1
    /\ gwi' = gwi + 1
    /\ UNCHANGED <<pc, idx, scenario, store, stats, result, nodevars>>

\* The picks loop of the manager at idx is over: its squads are compared.
TransferCompareStart ==
    /\ pc = "transfers"
    /\ ~HasGameweek(RecentGameweeksOf(standings[idx]))
    /\ pc' = "transfers_compare"
    /\ gwi' = 1
    /\ UNCHANGED <<idx, scenario, faults, calls, store, stats, result, nodevars>>

\* The same derivation with the two differences taken the other way round.
DerivedTransfersSwapped(entry, curr_gw, prev_picks, curr_picks, entry_history) ==
    LET players_in == SquadOf(prev_picks) \ SquadOf(curr_picks)
        players_out == SquadOf(curr_picks) \ SquadOf(prev_picks)
    IN  IF players_in # {} /\ players_out # {}
        THEN {[i \in DOMAIN z |->
                  TransferRecord(entry, curr_gw, z[i][1], z[i][2], entry_history)] :
              z \in Zips(players_in, players_out)}
        ELSE {<<>>}

\* The records one compared pair of squads appends to all_transfers: nothing
\* unless both differences are non-empty, else one record per zipped pair, in
\* every order the zip can produce.
DerivedTransfers(entry, curr_gw, prev_picks, curr_picks, entry_history) ==
    LET prev_squad == SquadOf(prev_picks)
        curr_squad == SquadOf(curr_picks)
        players_in == curr_squad \ prev_squad
        players_out == prev_squad \ curr_squad
    IN  IF players_in # {} /\ players_out # {}
        THEN {[i \in DOMAIN z |->
                  TransferRecord(entry, curr_gw, z[i][1], z[i][2], entry_history)] :
              z \in Zips(players_in, players_out)}
        ELSE {<<>>}

\* One iteration of for i in range(len(sorted_gws) - 1): the squads of
\* sorted_gws[i] and sorted_gws[i + 1] are compared.
TransferCompare ==
    /\ pc = "transfers_compare"
    /\ gwi <= Len(sorted_gws) - 1
    /\ LET prev_gw == sorted_gws[gwi]
           curr_gw == sorted_gws[gwi + 1]
       IN  \E derived \in DerivedTransfers(standings[idx], curr_gw,
                                           picks_by_gw[prev_gw].picks,
                                           picks_by_gw[curr_gw].picks,
                                           picks_by_gw[curr_gw].transfers) :
              all_transfers' = all_transfers \o derived
    /\ gwi' = gwi + 1
    /\ UNCHANGED <<pc, idx, scenario, faults, calls, store, stats, result, manager_histories,
                   manager_nodes, performance_nodes, manager_team_nodes, player_selection_nodes,
                   formations_data, picks_by_gw>>

\* All pairs of the manager at idx are compared: on to the next manager.
TransferNextManager ==
    /\ pc = "transfers_compare"
    /\ gwi > Len(sorted_gws) - 1
    /\ idx' = idx + 1
    /\ gwi' = 1
    /\ picks_by_gw' = <<>>
    /\ pc' = AfterManager("transfers", "apply_transfers")
    /\ UNCHANGED <<scenario, faults, calls, store, stats, result, manager_histories,
                   manager_nodes, performance_nodes, manager_team_nodes, player_selection_nodes,
                   formations_data, all_transfers>>

ApplyTransfers ==
    /\ pc = "apply_transfers"
    /\ LET transfer_nodes == [i \in DOMAIN all_transfers |-> TransferNode(all_transfers[i])]
       IN  HandleBatchLoop("Transfer", transfer_nodes, "return",
                           [stats EXCEPT !.transfers = Len(transfer_nodes)])
    /\ UNCHANGED <<faults, nodevars>>

\* The return statement that ends the try block.
ReturnSuccess ==
    /\ pc = "return"
    /\ pc' = "returned"
    /\ result' = [status |-> "success",
                   message |-> "FPL data update completed successfully",
                   stats |-> stats,
                   timestamp |-> "now"]
    /\ UNCHANGED <<idx, gwi, scenario, faults, calls, store, stats, nodevars>>

(***************************************************************************)
(* The transfer derivation on its own                                      *)
(***************************************************************************)
\* Squads are drawn from the elements 1..MaxElement; the later gameweek's
\* entry_history reports up to MaxMade transfers.
MaxElement == 4
MaxMade == 3

\* The picks list of a squad, in ascending order of element.
PicksOf(squad) ==
    LET elements == SortedSeq(squad)
    IN  [i \in DOMAIN elements |-> [element |-> elements[i], position |-> i, multiplier |-> 1]]

TransferInit ==
    /\ t_prev \in {PicksOf(S) : S \in SUBSET (1..MaxElement)}
    /\ t_curr \in {PicksOf(S) : S \in SUBSET (1..MaxElement)}
    /\ t_history \in [event_transfers : 0..MaxMade, event_transfers_cost : {0, 4}]
    /\ t_derived = <<>>
    /\ t_store = <<>>
    /\ t_pc = "input"

TransferIdle ==
    /\ t_prev = <<>>
    /\ t_curr = <<>>
    /\ t_history = [event_transfers |-> 0, event_transfers_cost |-> 0]
    /\ t_derived = <<>>
    /\ t_store = <<>>
    /\ t_pc = "idle"

\* The squads of gameweeks 1 and 2 of entry 1 are compared.
DeriveTransfers ==
    /\ t_pc = "input"
    /\ t_derived' \in DerivedTransfers(1, 2, t_prev, t_curr, t_history)
    /\ t_pc' = "derived"
    /\ UNCHANGED <<t_prev, t_curr, t_history, t_store>>

\* The Transfer nodes of the records are built and upserted.
StoreTransfers ==
    /\ t_pc = "derived"
    /\ t_store' = Upsert(t_store, [i \in DOMAIN t_derived |-> TransferNode(t_derived[i])])
    /\ t_pc' = "stored"
    /\ UNCHANGED <<t_prev, t_curr, t_history, t_derived>>

TransferNext ==
    \/ DeriveTransfers /\ UNCHANGED <<bvars, fvars, cvars, hvars, rvars, ovars, svars, wvars, mvars>>
    \/ StoreTransfers /\ UNCHANGED <<bvars, fvars, cvars, hvars, rvars, ovars, svars, wvars, mvars>>

(***************************************************************************)
(* The reference-data load on its own, run repeatedly                      *)
(***************************************************************************)
\* How often the load is run on the same bootstrap.
MaxRuns == 2

\* What an earlier run on other data may have left: the teams with the
\* properties step 2.5 writes, and the fixtures.
EarlierStore ==
    Upsert(<<>>, [i \in DOMAIN teams |-> TeamUpdateNode(teams[i], fixtures_raw)]
                 \o FixtureNodes(fixtures_raw))

ReferenceInit ==
    /\ r_input \in [teams : 0..MaxTeams, events : 0..MaxWeeks, players : 0..NumPlayers]
    /\ r_store \in {<<>>, EarlierStore}
    /\ r_once = <<>>
    /\ r_ids = <<<<>>>>
    /\ r_run = 1
    /\ r_pc = "teams"

ReferenceIdle ==
    /\ r_input = [teams |-> 0, events |-> 0, players |-> 0]
    /\ r_store = <<>>
    /\ r_once = <<>>
    /\ r_ids = <<>>
    /\ r_run = 0
    /\ r_pc = "idle"

\* One apply of the load: the nodes reach the store and their ids are noted.
ReferenceApply(nodes, to) ==
    /\ r_store' = Upsert(r_store, nodes)
    /\ r_ids' = [r_ids EXCEPT ![r_run] = @ \o [i \in DOMAIN nodes |-> nodes[i].external_id]]
    /\ r_pc' = to
    /\ UNCHANGED <<r_input, r_run>>

\* Step 2 of handle().
ReferenceLoadTeams ==
    /\ r_pc = "teams"
    /\ ReferenceApply([i \in 1..r_input.teams |-> TeamNode(teams[i])], "gameweeks")
    /\ UNCHANGED r_once

\* Step 3 of handle().
ReferenceLoadGameweeks ==
    /\ r_pc = "gameweeks"
    /\ ReferenceApply([i \in 1..r_input.events |-> GameweekNode(events[i])], "players")
    /\ UNCHANGED r_once

\* Step 4 of handle(): all batches are committed.
ReferenceLoadPlayers ==
    /\ r_pc = "players"
    /\ ReferenceApply([i \in 1..r_input.players |-> PlayerNode(players[i])], "done")
    /\ r_once' = IF r_run = 1 THEN r_store' ELSE r_once

\* The load is started again on the same bootstrap.
ReferenceRerun ==
    /\ r_pc = "done"
    /\ r_run < MaxRuns
    /\ r_run' = r_run + 1
    /\ r_ids' = Append(r_ids, <<>>)
    /\ r_pc' = "teams"
    /\ UNCHANGED <<r_input, r_store, r_once>>

ReferenceNext ==
    \/ ReferenceLoadTeams /\ UNCHANGED <<bvars, fvars, cvars, hvars, tvars, ovars, svars, wvars, mvars>>
    \/ ReferenceLoadGameweeks /\ UNCHANGED <<bvars, fvars, cvars, hvars, tvars, ovars, svars, wvars, mvars>>
    \/ ReferenceLoadPlayers /\ UNCHANGED <<bvars, fvars, cvars, hvars, tvars, ovars, svars, wvars, mvars>>
    \/ ReferenceRerun /\ UNCHANGED <<bvars, fvars, cvars, hvars, tvars, ovars, svars, wvars, mvars>>

(***************************************************************************)
(* The team update of step 2.5 on its own                                  *)
(***************************************************************************)
MaxFixtureRun == 6

\* The fixtures a fixture list is drawn from, seen from team 1: at home, away,
\* at home against another side, away and finished, not involved.
FixtureKinds ==
    { [team_h |-> 1, team_a |-> 2, team_h_difficulty |-> 2, team_a_difficulty |-> 4, finished |-> FALSE],
      [team_h |-> 2, team_a |-> 1, team_h_difficulty |-> 2, team_a_difficulty |-> 4, finished |-> FALSE],
      [team_h |-> 1, team_a |-> 3, team_h_difficulty |-> 5, team_a_difficulty |-> 3, finished |-> FALSE],
      [team_h |-> 2, team_a |-> 1, team_h_difficulty |-> 3, team_a_difficulty |-> 5, finished |-> TRUE],
      [team_h |-> 2, team_a |-> 3, team_h_difficulty |-> 1, team_a_difficulty |-> 1, finished |-> FALSE] }

StrengthInit ==
    /\ \E kinds \in UNION {[1..k -> FixtureKinds] : k \in 0..MaxFixtureRun} :
         s_fixtures = [i \in DOMAIN kinds |-> [id |-> i, event |-> i] @@ kinds[i]]
    /\ s_node = Node("", "", <<>>)
    /\ s_pc = "input"

StrengthIdle ==
    /\ s_fixtures = <<>>
    /\ s_node = Node("", "", <<>>)
    /\ s_pc = "idle"

\* One iteration of `for team in teams`, for team 1.
UpdateTeam ==
    /\ s_pc = "input"
    /\ s_node' = TeamUpdateNode(1, s_fixtures)
    /\ s_pc' = "updated"
    /\ UNCHANGED s_fixtures

StrengthNext ==
    \/ UpdateTeam /\ UNCHANGED <<bvars, fvars, cvars, hvars, tvars, rvars, ovars, wvars, mvars>>

(***************************************************************************)
(* The gameweek window of the transfer stage on its own                    *)
(***************************************************************************)
MaxCurrent == 7

\* The manager's history holds the gameweeks from the one the manager joined
\* in up to the current one.
WindowInit ==
    /\ w_current \in 1..MaxCurrent
    /\ \E joined \in 1..w_current :
         w_gameweeks = [i \in 1..(w_current - joined + 1) |-> joined + i - 1]
    /\ w_requested = <<>>
    /\ w_picks = {}
    /\ w_compared = <<>>
    /\ w_pc = "input"

WindowIdle ==
    /\ w_current = 0
    /\ w_gameweeks = <<>>
    /\ w_requested = <<>>
    /\ w_picks = {}
    /\ w_compared = <<>>
    /\ w_pc = "idle"

\* for gw in [g for g in gameweeks if g in recent_gameweeks]: the picks of
\* each are requested; those whose request throws are left out of picks_by_gw.
WindowFetch ==
    /\ w_pc = "input"
    /\ w_requested' = SelectSeq(w_gameweeks, LAMBDA g : g \in RecentGameweeks(w_current))
    /\ w_picks' \in SUBSET Range(w_requested')
    /\ w_pc' = "fetched"
    /\ UNCHANGED <<w_current, w_gameweeks, w_compared>>

\* for i in range(len(sorted_gws) - 1): neighbours of sorted(picks_by_gw).
WindowCompare ==
    /\ w_pc = "fetched"
    /\ LET sorted == SortedSeq(w_picks)
       IN  w_compared' = [i \in 1..(Len(sorted) - 1) |-> <<sorted[i], sorted[i + 1]>>]
    /\ w_pc' = "compared"
    /\ UNCHANGED <<w_current, w_gameweeks, w_requested, w_picks>>

WindowNext ==
    \/ WindowFetch /\ UNCHANGED <<bvars, fvars, cvars, hvars, tvars, rvars, ovars, svars, mvars>>
    \/ WindowCompare /\ UNCHANGED <<bvars, fvars, cvars, hvars, tvars, rvars, ovars, svars, mvars>>

(***************************************************************************)
(* The body of the manager loop on its own                                 *)
(***************************************************************************)
MaxRecords == 3

\* One record of history['current']; `lacks` names the key the payload left
\* out of it, if any.
HistoryRecord(gw, points, lacks) ==
    [event |-> gw, points |-> points, value |-> 1000 + gw, event_transfers |-> 0,
     event_transfers_cost |-> 0, lacks |-> lacks]

ManagerInit ==
    /\ \E shape \in UNION {[1..k -> {0, 50} \X {"", "points", "total_points"}] :
                              k \in 0..MaxRecords} :
         m_history = [i \in DOMAIN shape |-> HistoryRecord(i, shape[i][1], shape[i][2])]
    /\ m_manager_nodes = <<>>
    /\ m_performance_nodes = <<>>
    /\ m_errors = <<>>
    /\ m_pc = "input"

ManagerIdle ==
    /\ m_history = <<>>
    /\ m_manager_nodes = <<>>
    /\ m_performance_nodes = <<>>
    /\ m_errors = <<>>
    /\ m_pc = "idle"

\* The first record whose key is missing, or 0: gw[key] raises KeyError there.
FirstLacking(current_gw_data, key) ==
    IF \E i \in DOMAIN current_gw_data : current_gw_data[i].lacks = key
    THEN CHOOSE i \in DOMAIN current_gw_data :
            /\ current_gw_data[i].lacks = key
            /\ \A j \in 1..(i - 1) : current_gw_data[j].lacks # key
    ELSE 0

\* One iteration of `for manager in standings`, for entry 1: the try block
\* runs until a statement raises, then the except clause records the error.
ProcessManager ==
    /\ m_pc = "input"
    /\ \E fetched \in BOOLEAN :
         LET entry == 1
             error == Append(m_errors, ErrorEntry("Manager", entry, 0))
             no_points == FirstLacking(m_history, "points")
             no_total == FirstLacking(m_history, "total_points")
         IN  IF ~fetched \/ no_points # 0
             THEN \* get_entry_history or the weekly_points list raised
                  /\ m_errors' = error
                  /\ UNCHANGED <<m_manager_nodes, m_performance_nodes>>
             ELSE /\ m_manager_nodes' = Append(m_manager_nodes, ManagerNode(entry, m_history))
                  /\ IF no_total # 0
                     THEN \* gw_data['total_points'] raised inside the loop
                          /\ m_performance_nodes' = m_performance_nodes \o
                                 [i \in 1..(no_total - 1) |-> PerformanceNode(entry, m_history[i])]
                          /\ m_errors' = error
                     ELSE /\ m_performance_nodes' = m_performance_nodes \o
                                 [i \in DOMAIN m_history |-> PerformanceNode(entry, m_history[i])]
                          /\ UNCHANGED m_errors
    /\ m_pc' = "done"
    /\ UNCHANGED m_history

ManagerNext ==
    \/ ProcessManager /\ UNCHANGED <<bvars, fvars, cvars, hvars, tvars, rvars, ovars, svars, wvars>>

(***************************************************************************)
(* match_with_fpl_fixtures on its own                                      *)
(***************************************************************************)
MaxOddsList == 2
MaxFixtureList == 2

\* Sequences over a set of at most n elements.
SeqUpTo(S, n) == UNION {[1..k -> S] : k \in 0..n}

\* The names the provider uses and the names the FPL bootstrap uses.
ProviderNames == {"Manchester City", "Man City", "Arsenal"}
FplNames == {"Man City", "Arsenal"}

OddsInit ==
    /\ o_odds \in SeqUpTo({OddsRecord(h, a, o) : h \in ProviderNames, a \in ProviderNames,
                                                 o \in {150, 390}}, MaxOddsList)
    /\ \A i \in DOMAIN o_odds : o_odds[i].home_team # o_odds[i].away_team
    /\ \E names \in SeqUpTo({<<h, a>> \in FplNames \X FplNames : h # a}, MaxFixtureList) :
         o_given = [i \in DOMAIN names |->
                      [id |-> i, event |-> i, team_h_name |-> names[i][1],
                       team_a_name |-> names[i][2]]]
    /\ o_fixtures = o_given
    /\ o_out = <<>>
    /\ o_pc = "given"

OddsIdle ==
    /\ o_odds = <<>>
    /\ o_given = <<>>
    /\ o_fixtures = <<>>
    /\ o_out = <<>>
    /\ o_pc = "idle"

\* fetcher.match_with_fpl_fixtures(odds_data, fixtures)
MatchWithFplFixtures ==
    /\ o_pc = "given"
    /\ o_out' = match_with_fpl_fixtures(o_odds, o_fixtures)
    /\ o_fixtures' = FixturesAfterMatch(o_odds, o_fixtures)
    /\ o_pc' = "matched"
    /\ UNCHANGED <<o_odds, o_given>>

OddsNext ==
    \/ MatchWithFplFixtures /\ UNCHANGED <<bvars, fvars, cvars, hvars, tvars, rvars, svars, wvars, mvars>>

Next ==
    \/ FetchBootstrap /\ UNCHANGED <<bvars, fvars, cvars, tvars, rvars, ovars, svars, wvars, mvars>>
    \/ FetchCurrentGameweek /\ UNCHANGED <<bvars, fvars, cvars, tvars, rvars, ovars, svars, wvars, mvars>>
    \/ LoadTeams /\ UNCHANGED <<bvars, fvars, cvars, tvars, rvars, ovars, svars, wvars, mvars>>
    \/ FetchFixtures /\ UNCHANGED <<bvars, fvars, cvars, tvars, rvars, ovars, svars, wvars, mvars>>
    \/ FetchOdds /\ UNCHANGED <<bvars, fvars, cvars, tvars, rvars, ovars, svars, wvars, mvars>>
    \/ LoadFixtures /\ UNCHANGED <<bvars, fvars, cvars, tvars, rvars, ovars, svars, wvars, mvars>>
    \/ UpdateTeamStrength /\ UNCHANGED <<bvars, fvars, cvars, tvars, rvars, ovars, svars, wvars, mvars>>
    \/ LoadGameweeks /\ UNCHANGED <<bvars, fvars, cvars, tvars, rvars, ovars, svars, wvars, mvars>>
    \/ LoadPlayers /\ UNCHANGED <<bvars, fvars, cvars, tvars, rvars, ovars, svars, wvars, mvars>>
    \/ FetchStandings /\ UNCHANGED <<bvars, fvars, cvars, tvars, rvars, ovars, svars, wvars, mvars>>
    \/ ManagerHistory /\ UNCHANGED <<bvars, fvars, cvars, tvars, rvars, ovars, svars, wvars, mvars>>
    \/ ManagerHistoryFails /\ UNCHANGED <<bvars, fvars, cvars, tvars, rvars, ovars, svars, wvars, mvars>>
    \/ ApplyManagers /\ UNCHANGED <<bvars, fvars, cvars, tvars, rvars, ovars, svars, wvars, mvars>>
    \/ ApplyPerformance /\ UNCHANGED <<bvars, fvars, cvars, tvars, rvars, ovars, svars, wvars, mvars>>
    \/ SquadPicks /\ UNCHANGED <<bvars, fvars, cvars, tvars, rvars, ovars, svars, wvars, mvars>>
    \/ SquadPicksFails /\ UNCHANGED <<bvars, fvars, cvars, tvars, rvars, ovars, svars, wvars, mvars>>
    \/ SquadNextManager /\ UNCHANGED <<bvars, fvars, cvars, tvars, rvars, ovars, svars, wvars, mvars>>
    \/ ApplyManagerTeams /\ UNCHANGED <<bvars, fvars, cvars, tvars, rvars, ovars, svars, wvars, mvars>>
    \/ ApplySelections /\ UNCHANGED <<bvars, fvars, cvars, tvars, rvars, ovars, svars, wvars, mvars>>
    \/ FormationPicks /\ UNCHANGED <<bvars, fvars, cvars, tvars, rvars, ovars, svars, wvars, mvars>>
    \/ FormationPicksFails /\ UNCHANGED <<bvars, fvars, cvars, tvars, rvars, ovars, svars, wvars, mvars>>
    \/ FormationNextManager /\ UNCHANGED <<bvars, fvars, cvars, tvars, rvars, ovars, svars, wvars, mvars>>
    \/ ApplyFormations /\ UNCHANGED <<bvars, fvars, cvars, tvars, rvars, ovars, svars, wvars, mvars>>
    \/ TransferPicks /\ UNCHANGED <<bvars, fvars, cvars, tvars, rvars, ovars, svars, wvars, mvars>>
    \/ TransferPicksFails /\ UNCHANGED <<bvars, fvars, cvars, tvars, rvars, ovars, svars, wvars, mvars>>
    \/ TransferCompareStart /\ UNCHANGED <<bvars, fvars, cvars, tvars, rvars, ovars, svars, wvars, mvars>>
    \/ TransferCompare /\ UNCHANGED <<bvars, fvars, cvars, tvars, rvars, ovars, svars, wvars, mvars>>
    \/ TransferNextManager /\ UNCHANGED <<bvars, fvars, cvars, tvars, rvars, ovars, svars, wvars, mvars>>
    \/ ApplyTransfers /\ UNCHANGED <<bvars, fvars, cvars, tvars, rvars, ovars, svars, wvars, mvars>>
    \/ ReturnSuccess /\ UNCHANGED <<bvars, fvars, cvars, tvars, rvars, ovars, svars, wvars, mvars>>


(***************************************************************************)
(* Specifications                                                          *)
(***************************************************************************)
Init == HandleInit /\ BatchIdle /\ FormationIdle /\ ConsistencyIdle /\ TransferIdle /\ ReferenceIdle /\ OddsIdle /\ StrengthIdle /\ WindowIdle /\ ManagerIdle
Spec == Init /\ [][Next]_vars

TransferStart == TransferInit /\ BatchIdle /\ FormationIdle /\ ConsistencyIdle /\ HandleIdle /\ ReferenceIdle /\ OddsIdle /\ StrengthIdle /\ WindowIdle /\ ManagerIdle
TransferSpec == TransferStart /\ [][TransferNext]_vars

ReferenceStart == ReferenceInit /\ BatchIdle /\ FormationIdle /\ ConsistencyIdle /\ HandleIdle /\ TransferIdle /\ OddsIdle /\ StrengthIdle /\ WindowIdle /\ ManagerIdle
ReferenceSpec == ReferenceStart /\ [][ReferenceNext]_vars

OddsStart == OddsInit /\ BatchIdle /\ FormationIdle /\ ConsistencyIdle /\ HandleIdle /\ TransferIdle /\ ReferenceIdle /\ StrengthIdle /\ WindowIdle /\ ManagerIdle
OddsSpec == OddsStart /\ [][OddsNext]_vars

StrengthStart == StrengthInit /\ BatchIdle /\ FormationIdle /\ ConsistencyIdle /\ HandleIdle /\ TransferIdle /\ ReferenceIdle /\ OddsIdle /\ WindowIdle /\ ManagerIdle
StrengthSpec == StrengthStart /\ [][StrengthNext]_vars

WindowStart == WindowInit /\ BatchIdle /\ FormationIdle /\ ConsistencyIdle /\ HandleIdle /\ TransferIdle /\ ReferenceIdle /\ OddsIdle /\ StrengthIdle /\ ManagerIdle
WindowSpec == WindowStart /\ [][WindowNext]_vars

ManagerStart == ManagerInit /\ BatchIdle /\ FormationIdle /\ ConsistencyIdle /\ HandleIdle /\ TransferIdle /\ ReferenceIdle /\ OddsIdle /\ StrengthIdle /\ WindowIdle
ManagerSpec == ManagerStart /\ [][ManagerNext]_vars

BatchStart == BatchInit /\ FormationIdle /\ ConsistencyIdle /\ HandleIdle /\ TransferIdle /\ ReferenceIdle /\ OddsIdle /\ StrengthIdle /\ WindowIdle /\ ManagerIdle
BatchSpec == BatchStart /\ [][BatchNext]_vars

FormationStart == FormationInit /\ BatchIdle /\ ConsistencyIdle /\ HandleIdle /\ TransferIdle /\ ReferenceIdle /\ OddsIdle /\ StrengthIdle /\ WindowIdle /\ ManagerIdle
FormationSpec == FormationStart /\ [][FormationNext]_vars

ConsistencyStart == ConsistencyInit /\ BatchIdle /\ FormationIdle /\ HandleIdle /\ TransferIdle /\ ReferenceIdle /\ OddsIdle /\ StrengthIdle /\ WindowIdle /\ ManagerIdle
ConsistencySpec == ConsistencyStart /\ [][ConsistencyNext]_vars

(***************************************************************************)
(* Claims about the batched upsert (checked under BatchSpec)               *)
(***************************************************************************)
RECURSIVE Flatten(_)
Flatten(ss) == IF ss = <<>> THEN <<>> ELSE Head(ss) \o Flatten(Tail(ss))

CeilDiv(n, d) == IF n % d = 0 THEN n \div d ELSE (n \div d) + 1

\* C3: the batches handed to the store are consecutive slices of the input in
\* input order, each of 100 nodes except possibly the last one of the list;
\* a loop that runs to its end has handed over ceil(N/100) batches that hold
\* every node exactly once, and has committed exactly them when no commit
\* failed (250 nodes: 100, 100, 50; 0 nodes: no batch).
C3_BatchesPartitionInput ==
    LET n == Len(b_nodes)
        k == Len(b_submitted)
    IN  /\ Flatten(b_submitted) = SubSeq(b_nodes, 1, Min(n, 100 * k))
        /\ \A j \in 1..k :
              /\ b_submitted[j] # <<>>
              /\ Len(b_submitted[j]) # 100 => j = CeilDiv(n, 100)
        /\ b_pc = "done" =>
              /\ k = CeilDiv(n, 100)
              /\ Flatten(b_submitted) = b_nodes
              /\ ~b_failed => b_store = b_nodes
              /\ n = 250 => [j \in 1..k |-> Len(b_submitted[j])] = <<100, 100, 50>>
              /\ n = 0 => b_submitted = <<>>

C3_Witness ==
    /\ b_pc = "done"
    /\ Len(b_nodes) = 250
    /\ ~b_failed
    /\ Len(b_submitted) = 3
    /\ Len(b_submitted[3]) = 50

\* C4: when a loop has ended, the count it reports is the total size of the
\* batches whose commit succeeded.
C4_CountIsCommittedSize ==
    b_pc \in {"done", "raised"} => b_count = Len(b_store)

\* C2: a failed commit of one batch is caught: it does not end the loop with
\* an exception, and the batches after it are still handed to the store.
C2_BatchFailureIsCaught ==
    /\ b_pc # "raised"
    /\ b_pc = "done" => Len(b_submitted) = NumBatches(Len(b_nodes))

(***************************************************************************)
(* Claims about formations (checked under FormationSpec)                   *)
(***************************************************************************)
\* The squad's selections with multiplier > 0, and those of one position.
ActivePicks(picks) == {i \in DOMAIN picks : picks[i].multiplier > 0}
ActiveOf(picks, pos) == {i \in ActivePicks(picks) : StoredPosition(picks[i].element) = pos}

ValidSquad(picks) ==
    /\ Cardinality(ActivePicks(picks)) = 11
    /\ Cardinality(ActiveOf(picks, "GK")) = 1

\* C7: the formation stored for a ManagerTeam is non-null only when the squad
\* has exactly 11 selections with multiplier > 0, exactly one of them a
\* goalkeeper.
C7_FormationOnlyForValidSquad ==
    f_stored # Null => ValidSquad(f_picks)

\* C8: for a squad with exactly 11 active players, exactly one a goalkeeper,
\* calculate_formation returns "D-M-F", the numbers of active defenders,
\* midfielders and forwards, and D + M + F = 10.
C8_LabelCountsTenOutfield ==
    (f_op = "calculate_formation" /\ ValidSquad(f_picks)) =>
        LET d == Cardinality(ActiveOf(f_picks, "DEF"))
            m == Cardinality(ActiveOf(f_picks, "MID"))
            f == Cardinality(ActiveOf(f_picks, "FWD"))
        IN  /\ f_last = FormationLabel(d, m, f)
            /\ d + m + f = 10

\* C9: the stored formation of a ManagerTeam whose active chip is the bench
\* boost is null, whatever its picks are and whichever of the script and the
\* handler's formation step have processed it.
C9_BenchBoostFormationNull ==
    f_chip = "bboost" =>
        /\ f_stored = Null
        /\ f_op = "update_formations" => f_last = Null

C9_Witness ==
    /\ f_chip = "bboost"
    /\ f_op = "handle"
    /\ Cardinality(ActivePicks(f_picks)) = 15
    /\ f_stored = Null

\* C28: for a squad without the bench-boost chip, the formation the
\* handler's formation step stores is the value calculate_formation of the
\* script returns for the same picks and player positions.
C28_HandlerAgreesWithScript ==
    (f_op = "handle" /\ f_chip # "bboost") =>
        /\ f_last = calculate_formation(SelectionsOf(f_picks))
        /\ f_stored = calculate_formation(SelectionsOf(f_picks))

(***************************************************************************)
(* Claims about the consistency score (checked under ConsistencySpec)      *)
(***************************************************************************)
\* C10: the score is in [0, 100]; it is 0 with fewer than 2 weeks or a mean
\* that is not positive, and 100 when the (at least 2) weekly points are all
\* equal and positive.
C10_ConsistencyScore ==
    c_pc = "scored" =>
        /\ c_score >= 0 /\ c_score <= 100
        /\ Len(c_points) < 2 => c_score = 0
        /\ SumSeq(c_points) <= 0 => c_score = 0
        /\ (/\ Len(c_points) >= 2
            /\ \A i \in DOMAIN c_points : c_points[i] = c_points[1] /\ c_points[i] > 0)
              => c_score = 100
        /\ c_points = <<50, 50, 50, 50>> => c_score = 100
        /\ c_points = <<0, 0, 0, 0>> => c_score = 0

C10_Witness ==
    /\ c_pc = "scored"
    /\ c_points = <<50, 50, 50, 50>>
    /\ c_score = 100

(***************************************************************************)
(* Claims about handle()                                                   *)
(***************************************************************************)
\* The calls of one operation made so far, in order.
CallsOf(op) == SelectSeq(calls, LAMBDA c : c.op = op)

\* The manager loop has visited every entry of the standings.
ManagerStageOver == Len(CallsOf("get_entry_history")) = Len(standings)

\* The entries whose history fetch threw.
FailedManagers == {c.entry : c \in {d \in Range(CallsOf("get_entry_history")) : ~d.ok}}

\* The entries of an error list that name the entry.
ErrorsNaming(errors, entry) == SelectSeq(errors, LAMBDA e : e.entry = entry)

\* The nodes of a list that carry the external id.
NodesWithId(nodes, ext) == SelectSeq(nodes, LAMBDA n : n.external_id = ext)

\* C1: once the manager loop is over, every manager of the standings whose
\* history fetch did not throw has exactly one Manager node and one
\* Performance node per gameweek of its history among the emitted nodes,
\* while a manager whose fetch threw has none and is named by exactly one
\* entry of the error list, in every later state of the run and in the
\* summary the run returns.
C1_ManagerFailureIsIsolated ==
    ManagerStageOver =>
        \A entry \in Range(standings) :
            IF entry \in FailedManagers
            THEN /\ Len(ErrorsNaming(stats.errors, entry)) = 1
                 /\ ErrorsNaming(stats.errors, entry)[1].ctx = "Manager"
                 /\ pc = "returned" => Len(ErrorsNaming(result.stats.errors, entry)) = 1
                 /\ NodesWithId(manager_nodes, "manager_" \o ToString(entry)) = <<>>
            ELSE /\ NodesWithId(manager_nodes, "manager_" \o ToString(entry))
                        = <<ManagerNode(entry, HistoryCurrent(entry))>>
                 /\ \A g \in DOMAIN HistoryCurrent(entry) :
                        NodesWithId(performance_nodes, GwId("performance_", entry, g))
                            = <<PerformanceNode(entry, HistoryCurrent(entry)[g])>>

\* A run that ended with success although one manager's history fetch threw:
\* the other managers are in the store with their performances.
C1_Witness ==
    /\ pc = "returned"
    /\ result.status = "success"
    /\ FailedManagers # {}
    /\ \E entry \in Range(standings) \ FailedManagers :
          /\ "manager_" \o ToString(entry) \in DOMAIN store
          /\ GwId("performance_", entry, 1) \in DOMAIN store
    /\ \A entry \in FailedManagers : "manager_" \o ToString(entry) \notin DOMAIN store

CountKeys ==
    {"teams", "fixtures", "fixtures_with_odds", "gameweeks", "players", "managers",
     "performance_records", "manager_teams", "player_selections", "transfers",
     "team_betting_records", "formations_calculated"}

\* C5: a run stops only by returning, and what it returns is a summary with
\* the status success or error, the per-entity counts, the error list and a
\* timestamp; the status is error only when the last call of the run threw.
C5_AlwaysReturnsSummary ==
    /\ pc # "returned" => ENABLED Next
    /\ pc = "returned" =>
          /\ result.status \in {"success", "error"}
          /\ DOMAIN result = {"status", "message", "stats", "timestamp"}
          /\ result.stats = stats
          /\ DOMAIN result.stats = CountKeys \cup {"errors"}
          /\ \A k \in CountKeys : result.stats[k] \in Nat
          /\ result.timestamp = "now"
          /\ result.status = "error" => ~calls[Len(calls)].ok

\* A run that ended in the except clause after part of its work was committed.
C5_Witness ==
    /\ pc = "returned"
    /\ result.status = "error"
    /\ result.stats.players = NumPlayers
    /\ result.stats.managers = 0
    /\ store # <<>>

\* The bootstrap fetches of step 1.
BootstrapOps == {"get_bootstrap_static", "get_current_gameweek"}

\* C6: when a bootstrap fetch throws, the run has returned with status
\* error, the throwing fetch is the last call it made, and nothing is in the
\* store or counted.
C6_BootstrapFailureIsFatal ==
    \A i \in DOMAIN calls :
        (calls[i].op \in BootstrapOps /\ ~calls[i].ok) =>
            /\ i = Len(calls)
            /\ pc = "returned"
            /\ result.status = "error"
            /\ store = <<>>
            /\ \A k \in CountKeys : stats[k] = 0
            /\ \A j \in DOMAIN calls : calls[j].op \in BootstrapOps

\* The first bootstrap fetch threw and the run is over.
C6_Witness ==
    /\ pc = "returned"
    /\ calls = << Call("get_bootstrap_static", "", 0, 0, FALSE) >>
    /\ result.status = "error"

(***************************************************************************)
(* Claims about the transfer derivation                                    *)
(***************************************************************************)
\* C11: a compared pair of squads yields transfer records only when the set
\* of players in (later squad minus earlier squad) and the set of players out
\* (earlier minus later) are both non-empty; the squads {1,2,3} and {1,2,4}
\* yield exactly one record: player 3 out, player 4 in.
C11_TransferNeedsInAndOut ==
    t_pc = "derived" =>
        LET prev_squad == SquadOf(t_prev)
            curr_squad == SquadOf(t_curr)
        IN  /\ t_derived # <<>> => (curr_squad \ prev_squad # {} /\ prev_squad \ curr_squad # {})
            /\ (curr_squad \ prev_squad # {} /\ prev_squad \ curr_squad # {}) => t_derived # <<>>
            /\ (prev_squad = {1, 2, 3} /\ curr_squad = {1, 2, 4}) =>
                  /\ Len(t_derived) = 1
                  /\ t_derived[1].player_out_id = 3
                  /\ t_derived[1].player_in_id = 4

C11_Witness ==
    /\ t_pc = "derived"
    /\ SquadOf(t_prev) = {1, 2, 3}
    /\ SquadOf(t_curr) = {1, 2, 4}
    /\ Len(t_derived) = 1
    /\ t_derived[1].player_out_id = 3

\* The squad the picks endpoint serves for the entry and gameweek in this run.
ServedSquad(entry, gw) == SquadOf(PicksData(scenario, entry, gw).picks)

\* C12: every record of all_transfers, of entry e and gameweek t, comes from
\* the squads of e in the consecutive gameweeks t-1 and t: its player in is
\* in squad(t) but not in squad(t-1), its player out in squad(t-1) but not in
\* squad(t), whichever picks fetches of the window failed.
C12_TransfersFromConsecutiveGameweeks ==
    \A i \in DOMAIN all_transfers :
        LET tr == all_transfers[i]
        IN  /\ tr.gameweek > 1
            /\ tr.player_in_id \in
                   ServedSquad(tr.entry_id, tr.gameweek) \ ServedSquad(tr.entry_id, tr.gameweek - 1)
            /\ tr.player_out_id \in
                   ServedSquad(tr.entry_id, tr.gameweek - 1) \ ServedSquad(tr.entry_id, tr.gameweek)

\* The form of a player in tenths, as player_stats holds it.
FormOf(player_id) == FormTenths(player_id)

\* C21: for every derived transfer, with cost-per-transfer the gameweek's
\* transfer cost divided by its number of transfers (0 when there were none)
\* and net benefit three times the difference of the forms of the player in
\* and the player out, the success flag is true exactly when net benefit
\* exceeds cost-per-transfer; the record's transfer_cost is cost-per-transfer
\* cut to an integer and its net_benefit is the net benefit rounded.
C21_TransferCostAndBenefit ==
    t_pc = "derived" =>
        \A i \in DOMAIN t_derived :
            LET tr == t_derived[i]
                cost == t_history.event_transfers_cost
                num == t_history.event_transfers
                net_tenths == 3 * (FormOf(tr.player_in_id) - FormOf(tr.player_out_id))
            IN  /\ num = 0 => /\ tr.transfer_cost = 0
                              /\ tr.was_successful = (net_tenths > 0)
                /\ num > 0 => /\ tr.transfer_cost * num <= cost
                              /\ cost < (tr.transfer_cost + 1) * num
                              /\ tr.was_successful = (net_tenths * num > 10 * cost)
                /\ 10 * tr.net_benefit - net_tenths \in -5..5

\* A derived transfer of a gameweek with two transfers costing 4 points: the
\* cost per transfer is 2 and the transfer, worth 2.1, is a success.
C21_Witness ==
    /\ t_pc = "derived"
    /\ t_history = [event_transfers |-> 2, event_transfers_cost |-> 4]
    /\ \E i \in DOMAIN t_derived :
         /\ t_derived[i].player_in_id = 2
         /\ t_derived[i].player_out_id = 1
         /\ t_derived[i].transfer_cost = 2
         /\ t_derived[i].net_benefit = 2
         /\ t_derived[i].was_successful

\* The players the compared squads differ by.
PlayersIn == SquadOf(t_curr) \ SquadOf(t_prev)
PlayersOut == SquadOf(t_prev) \ SquadOf(t_curr)

\* C25: the comparison of two squads yields as many records as the smaller
\* of the two differences has players;
\* every record pairs a player of the in-set with a player of the out-set,
\* and no player of either set is in two records.
C25_TransfersPairInWithOut ==
    t_pc = "derived" =>
        /\ Len(t_derived) = Min(Cardinality(PlayersIn), Cardinality(PlayersOut))
        /\ \A i \in DOMAIN t_derived :
               /\ t_derived[i].player_in_id \in PlayersIn
               /\ t_derived[i].player_out_id \in PlayersOut
        /\ \A i, j \in DOMAIN t_derived :
               i # j => /\ t_derived[i].player_in_id # t_derived[j].player_in_id
                        /\ t_derived[i].player_out_id # t_derived[j].player_out_id

\* Two players came in for one that went out: one record, one of the two
\* incoming players is in no record.
C25_Witness ==
    /\ t_pc = "derived"
    /\ Cardinality(PlayersIn) = 2
    /\ Cardinality(PlayersOut) = 1
    /\ Len(t_derived) = 1
    /\ t_derived[1].player_in_id \in PlayersIn

(***************************************************************************)
(* Claims about the reference-data load                                    *)
(***************************************************************************)
\* The external ids the bootstrap's entities map to.
ReferenceIds ==
    [i \in 1..r_input.teams |-> "team_" \o ToString(teams[i])]
    \o [i \in 1..r_input.events |-> "gameweek_" \o ToString(events[i])]
    \o [i \in 1..r_input.players |-> "player_" \o ToString(players[i])]

\* C13: a load that is run again on the same bootstrap hands the store the
\* same external ids as the first load, each a function of the entity's id
\* only, and the store is at every step of the later load, and after it, what
\* the first load left.
C13_ReferenceLoadIdempotent ==
    /\ r_run >= 2 => r_store = r_once
    /\ r_pc = "done" =>
          /\ r_store = r_once
          /\ \A k \in 1..r_run : r_ids[k] = ReferenceIds

\* A second load over a store that already held other properties is over.
C13_Witness ==
    /\ r_run = 2
    /\ r_pc = "done"
    /\ r_input.teams = MaxTeams
    /\ r_input.players = NumPlayers
    /\ "nextFixture" \in DOMAIN r_store["team_1"]
    /\ "fixture_1" \in DOMAIN r_store


\* The picks requests of one stage, in the order they were made.
PicksCalls(view) == SelectSeq(calls, LAMBDA c : c.op = "get_entry_picks" /\ c.view = view)

\* The (manager, gameweek) pairs the squad stage has to visit.
SquadPairs ==
    {<<entry, gw>> \in Range(standings) \X (1..MaxWeeks) :
        entry \in DOMAIN manager_histories /\ gw \in Range(GameweeksOf(entry))}

\* The squad stage has visited every pair.
SquadStageOver ==
    \/ pc \in {"apply_manager_teams", "apply_selections", "formations", "apply_formations",
               "transfers", "transfers_compare", "apply_transfers", "return"}
    \/ pc = "returned" /\ result.status = "success"

\* The error entries of the squad stage that name the pair.
PicksErrors(entry, gw) ==
    SelectSeq(stats.errors, LAMBDA e : e.ctx = "Picks" /\ e.entry = entry /\ e.gw = gw)

\* The PlayerSelection nodes emitted for the pair.
SelectionNodesOf(entry, gw) ==
    SelectSeq(player_selection_nodes,
              LAMBDA n : n.properties.managerTeam = GwId("managerteam_", entry, gw))

\* C14: in the squad stage a pair whose picks fetch threw is named by exactly
\* one entry of the error list and has no ManagerTeam node and no
\* PlayerSelection node among the emitted nodes; every pair whose fetch did
\* not throw has one ManagerTeam node and one PlayerSelection node per pick;
\* and once the stage is over every pair of every manager with a history has
\* been requested exactly once, failures of other pairs notwithstanding.
C14_PicksFailureIsIsolated ==
    /\ \A i \in DOMAIN PicksCalls("squads") :
         LET c == PicksCalls("squads")[i]
             team_id == GwId("managerteam_", c.entry, c.gw)
         IN  IF c.ok
             THEN /\ Len(NodesWithId(manager_team_nodes, team_id)) = 1
                  /\ Len(SelectionNodesOf(c.entry, c.gw)) =
                         Len(PicksData(scenario, c.entry, c.gw).picks)
                  /\ PicksErrors(c.entry, c.gw) = <<>>
             ELSE /\ Len(PicksErrors(c.entry, c.gw)) = 1
                  /\ NodesWithId(manager_team_nodes, team_id) = <<>>
                  /\ SelectionNodesOf(c.entry, c.gw) = <<>>
    /\ SquadStageOver =>
         \A pair \in SquadPairs :
            Len(SelectSeq(PicksCalls("squads"),
                          LAMBDA c : c.entry = pair[1] /\ c.gw = pair[2])) = 1

\* A finished squad stage in which one pair of a manager failed and a later
\* pair of the same manager was stored.
C14_Witness ==
    /\ SquadStageOver
    /\ \E i, j \in DOMAIN PicksCalls("squads") :
         /\ i < j
         /\ PicksCalls("squads")[i].entry = PicksCalls("squads")[j].entry
         /\ ~PicksCalls("squads")[i].ok
         /\ PicksCalls("squads")[j].ok
         /\ SelectionNodesOf(PicksCalls("squads")[j].entry, PicksCalls("squads")[j].gw) # <<>>

\* The requests whose exception a run catches without ending.
CaughtOps == {"fetch_premier_league_odds", "get_entry_history", "get_entry_picks"}

\* The failed requests of the run made with the same operation and key.
FailedLike(c) ==
    SelectSeq(calls, LAMBDA d : ~d.ok /\ d.op = c.op /\ d.entry = c.entry /\ d.gw = c.gw)

\* The error entries that identify the key of the request.
ErrorsFor(c) ==
    SelectSeq(stats.errors,
              LAMBDA e : CASE c.op = "fetch_premier_league_odds" -> e.ctx = "Odds"
                           [] c.op = "get_entry_history" -> e.ctx = "Manager" /\ e.entry = c.entry
                           [] OTHER -> e.entry = c.entry /\ e.gw = c.gw)

\* C15: every request whose failure the run catches and skips (the odds
\* fetch, a manager's history, a pair's picks in the squad, formation and
\* transfer stages) has an entry of its own in the error list that names its
\* key: the error list holds at least as many entries for a key as requests
\* for that key have failed.
C15_EveryCaughtFailureIsRecorded ==
    \A i \in DOMAIN calls :
        (calls[i].op \in CaughtOps /\ ~calls[i].ok) =>
            Len(ErrorsFor(calls[i])) >= Len(FailedLike(calls[i]))

FixtureId(f) == "fixture_" \o ToString(f.id)

\* The fixture nodes of the run have been committed.
FixturesCommitted == stats.fixtures > 0

HasMatch(odds, fixture) ==
    \E j \in DOMAIN odds :
        /\ team_name_mapping(odds[j].home_team) = fixture.team_h_name
        /\ team_name_mapping(odds[j].away_team) = fixture.team_a_name

\* C17: match_with_fpl_fixtures returns one fixture per input fixture in the
\* input's order, each with every field of its input fixture unchanged; a
\* fixture no odds record matches is returned as it was given, without odds
\* fields; and the caller's fixtures are after the call what they were
\* before it.
C17_MatchKeepsEveryFixture ==
    o_pc = "matched" =>
        /\ Len(o_out) = Len(o_given)
        /\ \A i \in DOMAIN o_given :
             /\ DOMAIN o_given[i] \subseteq DOMAIN o_out[i]
             /\ \A k \in DOMAIN o_given[i] : o_out[i][k] = o_given[i][k]
             /\ ~HasMatch(o_odds, o_given[i]) =>
                   /\ o_out[i] = o_given[i]
                   /\ DOMAIN o_out[i] \cap OddsFields = {}
        /\ o_fixtures = o_given

\* Two fixtures were matched against the odds: one got odds, the other had
\* no matching record.
C17_Witness ==
    /\ o_pc = "matched"
    /\ Len(o_out) = 2
    /\ o_odds # <<>>
    /\ \E i, j \in DOMAIN o_out :
         /\ HasOdds(o_out[i])
         /\ ~HasMatch(o_odds, o_given[j])

\* The provider's full name of an FPL team.
FullName(fpl_name) == IF fpl_name = "Man City" THEN "Manchester City" ELSE fpl_name

\* The odds record names the fixture's teams, by either name.
NamesFixture(odds, fixture) ==
    /\ odds.home_team \in {fixture.team_h_name, FullName(fixture.team_h_name)}
    /\ odds.away_team \in {fixture.team_a_name, FullName(fixture.team_a_name)}

\* C30: match_with_fpl_fixtures gives a fixture the odds of the first record
\* of the list that names its home and its away team, by the provider's full
\* name or by the FPL display name, and no odds when no record names them.
C30_MatchByEitherName ==
    o_pc = "matched" =>
        \A i \in DOMAIN o_given :
            LET naming == {j \in DOMAIN o_odds : NamesFixture(o_odds[j], o_given[i])}
            IN  IF naming = {}
                THEN DOMAIN o_out[i] \cap OddsFields = {}
                ELSE LET first == CHOOSE j \in naming : \A k \in naming : j <= k
                     IN  /\ OddsFields \subseteq DOMAIN o_out[i]
                         /\ \A f \in OddsFields : o_out[i][f] = o_odds[first][f]

(***************************************************************************)
(* Claims about the stages of handle()                                     *)
(***************************************************************************)
IsPicksCall(c) == c.op = "get_entry_picks"

\* C18: once a picks request for a (manager, gameweek) pair has thrown, no
\* later request of the run asks for the picks of that pair again, and no
\* formation is emitted for the pair's ManagerTeam.
C18_FailedPairIsSkipped ==
    \A i \in DOMAIN calls :
        (IsPicksCall(calls[i]) /\ ~calls[i].ok) =>
            /\ \A j \in DOMAIN calls :
                 (j > i /\ IsPicksCall(calls[j])) =>
                     ~(calls[j].entry = calls[i].entry /\ calls[j].gw = calls[i].gw)
            /\ \A k \in DOMAIN formations_data :
                 formations_data[k].key # GwId("managerteam_", calls[i].entry, calls[i].gw)

\* A successful apply call of the view precedes position i of the call log.
AppliedBefore(view, i) ==
    \E j \in 1..(i - 1) : calls[j].op = "apply" /\ calls[j].view = view /\ calls[j].ok

\* The stage a request belongs to, as a rank in the order the spec gives.
StageRank(c) ==
    CASE c.op = "get_entry_history" -> 1
      [] c.op = "get_entry_picks" /\ c.view = "squads" -> 2
      [] c.op = "get_entry_picks" /\ c.view = "formations" -> 3
      [] c.op = "get_entry_picks" /\ c.view = "transfers" -> 4
      [] OTHER -> 0

\* The requests of the manager, squad, formation and transfer stages appear
\* in that order.
StagesInOrder ==
    \A i, j \in DOMAIN calls :
        (i < j /\ StageRank(calls[i]) > 0 /\ StageRank(calls[j]) > 0) =>
            StageRank(calls[i]) <= StageRank(calls[j])

\* C19: in the call log of a run no apply call for Fixture nodes comes before
\* successful apply calls for the Team, the Gameweek and the Player nodes,
\* and the requests of the manager, squad, formation and transfer stages
\* appear in that order.
C19_ReferenceDataFirst ==
    /\ \A i \in DOMAIN calls :
         (calls[i].op = "apply" /\ calls[i].view = "Fixture") =>
             /\ AppliedBefore("PLTeam", i)
             /\ AppliedBefore("Gameweek", i)
             /\ AppliedBefore("Player", i)
    /\ StagesInOrder

\* A request of the manager-history loop or of the squad-picks loop.
LoopRequest(c) ==
    \/ c.op = "get_entry_history"
    \/ c.op = "get_entry_picks" /\ c.view = "squads"

\* C20: in the manager-history loop and in the squad-picks loop, between any
\* two consecutive remote requests of the loop the call log holds a delay,
\* whether the earlier request returned or threw.
C20_DelayBetweenRequests ==
    \A i, j \in DOMAIN calls :
        (i < j /\ LoopRequest(calls[i]) /\ LoopRequest(calls[j]) /\ calls[i].op = calls[j].op) =>
            \E k \in (i + 1)..(j - 1) : calls[k].op = "sleep"

(***************************************************************************)
(* Claims about the stored transfers and the team updates                  *)
(***************************************************************************)
\* The external ids of the Transfer nodes in the store.
StoredTransfers == DOMAIN t_store

\* C26: every Transfer node in the store has wasSuccessful true exactly when
\* its netBenefit is greater than its transferCost.
C26_StoredFlagMatchesStoredValues ==
    \A id \in StoredTransfers :
        t_store[id].wasSuccessful = (t_store[id].netBenefit > t_store[id].transferCost)

\* The positions in the list of the unfinished fixtures team 1 plays in.
Unfinished ==
    {i \in DOMAIN s_fixtures :
        (s_fixtures[i].team_h = 1 \/ s_fixtures[i].team_a = 1) /\ ~s_fixtures[i].finished}

\* The first five of them.
NextFive == {i \in Unfinished : Cardinality({j \in Unfinished : j < i}) < 5}

\* Team 1's own rating in the fixture at position i.
OwnDifficulty(i) ==
    IF s_fixtures[i].team_h = 1 THEN s_fixtures[i].team_h_difficulty
    ELSE s_fixtures[i].team_a_difficulty

RECURSIVE SumOver(_)
SumOver(S) ==
    IF S = {} THEN 0
    ELSE LET i == CHOOSE x \in S : TRUE IN OwnDifficulty(i) + SumOver(S \ {i})

\* C22: the upcoming difficulty written for a team is the mean of the team's
\* own rating (the home rating where it is the home side, the away rating
\* otherwise) over its next at most five unfinished fixtures, and is null
\* exactly when the team has no unfinished fixture.
C22_UpcomingDifficultyIsMean ==
    s_pc = "updated" =>
        LET avg == s_node.properties.upcomingFixtureDifficulty
        IN  /\ avg.is_none <=> Unfinished = {}
            /\ ~avg.is_none =>
                  /\ avg.count = Cardinality(NextFive)
                  /\ avg.count <= 5
                  /\ avg.sum = SumOver(NextFive)

\* A team with six unfinished fixtures, home and away: the mean is taken
\* over the first five.
C22_Witness ==
    /\ s_pc = "updated"
    /\ Cardinality(Unfinished) = 6
    /\ \E i, j \in NextFive : s_fixtures[i].team_h = 1 /\ s_fixtures[j].team_a = 1
    /\ s_node.properties.upcomingFixtureDifficulty.count = 5

(***************************************************************************)
(* Claims about the gameweek window (checked under WindowSpec)             *)
(***************************************************************************)
\* The gameweeks from max(1, current - 4) to current.
InWindow(gw) == gw <= w_current /\ gw >= 1 /\ gw >= w_current - 4

\* C23: the transfer stage requests picks only for gameweeks from
\* max(1, current - 4) to current, at most five per manager, compares at most
\* four pairs of them, and every compared pair, hence every gameweek a
\* transfer is recorded against, lies in that window.
C23_TransfersWithinWindow ==
    /\ \A i \in DOMAIN w_requested : InWindow(w_requested[i])
    /\ Len(w_requested) <= 5
    /\ \A g \in w_picks : InWindow(g)
    /\ Len(w_compared) <= 4
    /\ \A i \in DOMAIN w_compared : InWindow(w_compared[i][1]) /\ InWindow(w_compared[i][2])

\* A manager with seven gameweeks of history: five were requested, four
\* pairs compared, the first two gameweeks left alone.
C23_Witness ==
    /\ w_pc = "compared"
    /\ w_current = 7
    /\ Len(w_gameweeks) = 7
    /\ Len(w_requested) = 5
    /\ Len(w_compared) = 4

(***************************************************************************)
(* Claims about the manager loop's body (checked under ManagerSpec)        *)
(***************************************************************************)
\* C24: after a manager has been processed, either its Manager node and one
\* Performance node per record of its history are emitted and no error is
\* recorded, or an error is recorded and neither a Manager node nor any
\* Performance node of the manager is emitted.
C24_ManagerAllOrNothing ==
    m_pc = "done" =>
        \/ /\ m_errors = <<>>
           /\ Len(m_manager_nodes) = 1
           /\ Len(m_performance_nodes) = Len(m_history)
        \/ /\ Len(m_errors) = 1
           /\ m_manager_nodes = <<>>
           /\ m_performance_nodes = <<>>

(***************************************************************************)
(* Claims about formations and fixtures in a run of handle()               *)
(***************************************************************************)
\* C27: every formation update the handler emits is for a ManagerTeam whose
\* node the squad stage of the same run created, so that no ManagerTeam in
\* the store lacks its manager and gameweek.
C27_FormationOnlyForCreatedTeam ==
    /\ \A k \in DOMAIN formations_data :
         NodesWithId(manager_team_nodes, formations_data[k].key) # <<>>
    /\ \A id \in DOMAIN store :
         "formation" \in DOMAIN store[id] =>
             {"manager", "gameweek"} \subseteq DOMAIN store[id]

\* The properties a Fixture node carries.
IsFixture(id) == id \in DOMAIN store /\ "fixtureId" \in DOMAIN store[id]

\* C29: every nextFixture a team of the store points to is null or is the id
\* of a Fixture node the run has upserted, with a gameweek and not finished.
C29_NextFixtureIsStored ==
    \A id \in DOMAIN store :
        ("nextFixture" \in DOMAIN store[id] /\ store[id].nextFixture # Null) =>
            /\ IsFixture(store[id].nextFixture)
            /\ store[store[id].nextFixture].gameweek # Null
            /\ ~store[store[id].nextFixture].isFinished

=============================================================================
